---- MODULE Spec2Model ----
(***************************************************************************)
(* The room coordinator of ourcubes (worker/src/room.ts, class VoxelRoomDO) *)
(* together with the browser client that talks to it (web/src/net/ws.ts,    *)
(* web/src/components/GameRoom.tsx).                                        *)
(*                                                                          *)
(* JavaScript numbers that come from a client (op.k, op.t) can exceed 32    *)
(* bits, and the coordinator narrows them with `| 0`.  Such a number n is   *)
(* kept as a record [q, r] with n = q * 2^31 + r and 0 <= r < 2^31, so that *)
(* the narrowing is computed exactly.  Numbers the coordinator produces     *)
(* (lamport, version, cell keys after narrowing) are plain integers.        *)
(***************************************************************************)
EXTENDS Integers, Sequences, FiniteSets, TLC

VARIABLES
    canvas,          \* [voxels, lamport, version]: VoxelRoomDO.canvas
    connections,     \* VoxelRoomDO.connections: the open sockets
    closed,          \* sockets whose close event has been handled
    bucketMap,       \* VoxelRoomDO.bucketMap: socket -> [tokens, last]
    playerPresence,  \* VoxelRoomDO.playerPresence: insertion-ordered map
    persistTimer,    \* VoxelRoomDO.persistTimer: id of the last timer set (0 = undefined)
    pendingTimers,   \* ids of the timers that are set and have not fired
    now,             \* Date.now() in the worker, in ms since the room was made
    outbox,          \* socket -> messages sent on it by the coordinator, not yet read by the client
    toServer,        \* socket -> messages sent by the client, not yet handled
    local,           \* client: voxelState of GameRoom (cell -> color)
    welcomed,        \* client: sockets whose welcome has been handled by the client
    clicks,          \* client: number of clicks made on each socket's page
    storedId,        \* client: localStorage.getItem("playerId") of each socket's page
    ev,              \* history: the last handler that ran, with its input
    assigned,        \* history: every timestamp the coordinator assigned, in order
    lastAcc,         \* history: per cell, the accepted operation with the greatest timestamp
    effBatches,      \* history: number of batches with at least one accepted operation
    openAt,          \* history: openAt[v] = sockets open when version v was produced
    spent,           \* history: socket -> operations of the batches it was permitted
    handled,         \* history: number of set messages handled
    connectedAt,     \* history: socket -> the worker's clock when it was accepted
    storage,         \* state.storage of the Durable Object: [voxels, meta], meta kept as
                     \* a sequence of no record (absent) or one
    flushing,        \* persist() has put "voxels" and has still to put "meta"
    staticRooms,     \* env.STATIC_ROOMS: the values under "static:{roomSlug}" of this
                     \* room, a sequence of none or one
    lastSpend,       \* history: socket -> the worker's clock when tokens were last deducted
    prevEv,          \* history: the handler that ran before ev
    routed,          \* sockets whose /ws request the router has forwarded and the
                     \* coordinator has not received yet
    flushed,         \* history: the in-memory states at which a flush has begun
    timerDue,        \* timer id -> the worker's clock at which the timer is due
    acceptedAt,      \* history: the worker's clock when a batch was last accepted
    pos,             \* client: the coordinates [x, y, z] a page works with
    picked,          \* client: the cell key a page works with
    broken           \* sockets on which send throws

vars == <<canvas, connections, closed, bucketMap, playerPresence, persistTimer,
          pendingTimers, now, outbox, toServer, local, welcomed, clicks, storedId, ev,
          assigned, lastAcc, effBatches, openAt, spent, handled, connectedAt,
          storage, flushing, staticRooms, lastSpend, prevEv, routed, flushed,
          timerDue, acceptedAt, pos, picked, broken>>

serverVars == <<canvas, connections, closed, bucketMap, playerPresence,
                persistTimer, pendingTimers>>
clientVars == <<local, welcomed, clicks, storedId>>
histVars == <<assigned, lastAcc, effBatches, openAt, spent, handled, connectedAt>>
diskVars == <<storage, flushing, staticRooms>>
hist2Vars == <<lastSpend, prevEv>>
timeVars == <<timerDue, acceptedAt>>
pickVars == <<pos, picked>>
auxVars == <<routed, flushed, timeVars, pickVars, broken>>

----------------------------------------------------------------------------
(* Bounds of the model *)

MaxBatches == 3      \* set messages handled in Spec
MaxOut == 3          \* messages kept per socket
MaxNow == 50         \* the clock of the worker stops here
BurstClicks == 81    \* clicks of the painting client in SpecClient
ObserverClicks == 1  \* clicks of every other client in SpecClient
ClientOut == 1       \* messages a client has in flight to the coordinator in SpecClient
ClientIn == 1        \* messages a client has yet to handle in SpecClient
MaxWaitNow == 4100   \* the clock of the worker stops here in SpecRefill
MaxPairOps == 3      \* a socket that has spent this many tokens sends no more in SpecPair
MaxLamport == 2      \* no batch and no seed once the clock is here in SpecRoom
MaxFreezeOps == 2    \* no batch once the clock is here in SpecFreeze
MaxFlushLamport == 2 \* no batch once the clock is here in SpecFlush
MaxFlushOps == 3     \* a socket that has spent this many tokens sends no more in SpecFlush
MaxDebNow == 1250    \* the clock of the worker stops here in SpecDebounce
MaxDebOps == 2       \* a socket that is this many tokens short sends no more in SpecDebounce
MaxPackOps == 2      \* a socket that is this many tokens short sends no more in SpecPack
MaxPackVersion == 2  \* no batch is sent at this version in SpecPack
MaxOpenOps == 1      \* a socket that is this many tokens short sends no more in SpecOpen
MaxStaleOps == 1     \* a socket that is this many tokens short sends no more in SpecStale
MaxStaleVersion == 2 \* no seed is requested at this version in SpecStale
MaxBrokenOps == 1    \* a socket that is this many tokens short sends no more in SpecBroken
MaxRawOps == 3       \* a socket that has spent this many tokens sends no more in SpecRaw

(* Program constants *)

GridCells == 8000    \* room.ts:195
BucketCap == 80      \* room.ts:284
InitTokens == 80     \* room.ts:99
RefillMs == 50       \* room.ts:283
RetryAfterMs == 1000 \* room.ts:173
Int32Max == 2147483647
SeedCount == 20
PersistDelayMs == 500
GridSize == 20

Conns == {"c1", "c2"}
Painter == "c1"
Undefined == "undefined"
Null == "null"
Red == "#FF0000"
Green == "#00FF00"

----------------------------------------------------------------------------
(* JavaScript numbers and `| 0` *)

\* the number q * 2^31 + r
Num(q, r) == [q |-> q, r |-> r]

\* a number that fits in 32 bits, as a client-supplied number
Small(i) == IF i >= 0 THEN Num(0, i) ELSE Num(-1, (Int32Max + i) + 1)

\* x | 0: the low 32 bits of x read as a signed integer
ToInt32(x) == IF x.q % 2 = 0 THEN x.r ELSE (x.r - Int32Max) - 1

\* x <= y on numbers in [q, r] form
NumLeq(x, y) == x.q < y.q \/ (x.q = y.q /\ x.r <= y.r)

\* x + 1 on numbers in [q, r] form
NumSucc(x) == IF x.r = Int32Max THEN Num(x.q + 1, 0) ELSE Num(x.q, x.r + 1)

NumMax(x, y) == IF NumLeq(x, y) THEN y ELSE x

Max(a, b) == IF a >= b THEN a ELSE b
MinUncapped(a, b) == b
Min(a, b) == IF a <= b THEN a ELSE b

----------------------------------------------------------------------------
(* Insertion-ordered Map, as JavaScript's Map: a sequence of entries with *)
(* distinct keys.  set on a present key keeps the entry's place.          *)

MapHas(m, k) == \E i \in 1..Len(m) : m[i].k = k

MapGet(m, k) == m[CHOOSE i \in 1..Len(m) : m[i].k = k]

MapSetKeep(m, e) == IF MapHas(m, e.k) THEN m ELSE Append(m, e)
MapSet(m, e) ==
    IF MapHas(m, e.k)
    THEN [i \in 1..Len(m) |-> IF m[i].k = e.k THEN e ELSE m[i]]
    ELSE Append(m, e)

MapDelete(m, k) == SelectSeq(m, LAMBDA e : e.k # k)

MapKeys(m) == {m[i].k : i \in 1..Len(m)}

----------------------------------------------------------------------------
(* The canvas: processVoxelOp and what it is made of *)

Cells == {0, GridCells - 1}

\* room.ts:195, negated: the key addresses a cell of the grid
ValidKey(k) == ~(k < 0 \/ k >= GridCells)

\* room.ts:197: the new value of canvas.lamport
AdvanceClient(lamport, t) == ToInt32(t) + 1
AdvanceNoStep(lamport, t) == Max(lamport, ToInt32(t) + 1)
Advance(lamport, t) == Max(lamport + 1, ToInt32(t) + 1)

\* room.ts:202 and 207: the stored record is newer than the write
StaleAlways(cur, t) == TRUE
StaleOnTie(cur, t) == t <= cur.t
Stale(cur, t) == t < cur.t

\* room.ts:204 and 209: the operation as it is broadcast
AppliedOpClientT(op, k, t) ==
    [type |-> "set", k |-> k, color |-> op.color, t |-> ToInt32(op.t), by |-> op.by]
AppliedOp(op, k, t) ==
    [type |-> "set", k |-> k, color |-> op.color, t |-> t, by |-> op.by]

\* room.ts:208: the record written to the store
StoredVoxel(op, k, t) == [k |-> k, color |-> op.color, t |-> t, by |-> op.by]

\* room.ts:203: the store after a clear
ClearCellKeep(voxels, k) == voxels
ClearCell(voxels, k) == MapDelete(voxels, k)

\* One line of the resolution of a batch, kept as history.
TraceEntry(op, k, valid, before, t, accepted, had) ==
    [op |-> op, k |-> k, valid |-> valid, before |-> before, t |-> t,
     accepted |-> accepted, had |-> had]

ProcessVoxelOp(cv, op) ==
    LET k == ToInt32(op.k) IN
    IF ~ValidKey(k)
    THEN [canvas |-> cv, applied |-> <<>>,
          entry |-> TraceEntry(op, k, FALSE, cv.lamport, cv.lamport, FALSE, FALSE)]
    ELSE
      LET t == Advance(cv.lamport, op.t)
          cv1 == [cv EXCEPT !.lamport = t]
          had == MapHas(cv.voxels, k)
          lost == [canvas |-> cv1, applied |-> <<>>,
                   entry |-> TraceEntry(op, k, TRUE, cv.lamport, t, FALSE, had)]
          won(voxels) ==
              [canvas |-> [cv1 EXCEPT !.voxels = voxels],
               applied |-> <<AppliedOp(op, k, t)>>,
               entry |-> TraceEntry(op, k, TRUE, cv.lamport, t, TRUE, had)]
      IN IF op.color = Null
         THEN IF ~had \/ Stale(MapGet(cv.voxels, k), t)
              THEN lost
              ELSE won(ClearCell(cv.voxels, k))
         ELSE IF had /\ Stale(MapGet(cv.voxels, k), t)
              THEN lost
              ELSE won(MapSet(cv.voxels, StoredVoxel(op, k, t)))

\* room.ts:178-184: the loop over the operations of a batch, in order.  The
\* sequence is folded by halves, left half first, which visits the operations
\* in the order of the loop; the left result is bound as a value before the
\* right half is resolved on its canvas.
RECURSIVE ApplyBatch(_, _)
ApplyBatch(cv, ops) ==
    IF ops = <<>>
    THEN [canvas |-> cv, applied |-> <<>>, trace |-> <<>>]
    ELSE IF Len(ops) = 1
    THEN LET r == ProcessVoxelOp(cv, ops[1])
         IN [canvas |-> r.canvas, applied |-> r.applied, trace |-> <<r.entry>>]
    ELSE LET h == Len(ops) \div 2
             both == {<<left, ApplyBatch(left.canvas, SubSeq(ops, h + 1, Len(ops)))>> :
                         left \in {ApplyBatch(cv, SubSeq(ops, 1, h))}}
             lr == CHOOSE x \in both : TRUE
         IN [canvas |-> lr[2].canvas,
             applied |-> lr[1].applied \o lr[2].applied,
             trace |-> lr[1].trace \o lr[2].trace]

\* room.ts:186-187: version after a batch
NextVersionPerOp(version, applied) == version + Len(applied)
NextVersionAlways(version, applied) == version + 1
NextVersion(version, applied) == IF Len(applied) > 0 THEN version + 1 ELSE version

\* room.ts:244-248; the first one leaves the timestamp out
PackStateNoT(voxels) ==
    [i \in 1..Len(voxels) |-> <<voxels[i].k, voxels[i].color>>]
PackState(voxels) ==
    [i \in 1..Len(voxels) |-> <<voxels[i].k, voxels[i].color, voxels[i].t>>]

----------------------------------------------------------------------------
(* The rate limiter *)

\* room.ts:99
NewBucket(nowv) == [tokens |-> InitTokens, last |-> nowv]

\* room.ts:283
Refill(b, nowv) == (nowv - b.last) \div RefillMs

\* room.ts:286, negated: the bucket covers the cost
EnoughOne(tokens, cost) == tokens >= 1
EnoughStrict(tokens, cost) == tokens > cost
Enough(tokens, cost) == ~(tokens < cost)

\* room.ts:279-289, for a socket that has a bucket
CheckBucket(b, nowv, cost) ==
    LET tokens == Min(BucketCap, b.tokens + Max(0, Refill(b, nowv)))
        b1 == [tokens |-> tokens, last |-> nowv]
    IN IF ~Enough(tokens, cost)
       THEN [ok |-> FALSE, bucket |-> b1]
       ELSE [ok |-> TRUE, bucket |-> [b1 EXCEPT !.tokens = @ - cost]]

----------------------------------------------------------------------------
(* Sending *)

\* room.ts:101-105: the send closure of one socket; ws.send throws on a broken
\* socket and the exception is swallowed
Send(ob, c, msg) == IF c \in broken THEN ob ELSE [ob EXCEPT ![c] = Append(@, msg)]

\* room.ts:225-232
BroadcastOthers(ob, conns, sender, msg) ==
    [c \in DOMAIN ob |-> IF c \in conns \ {sender} THEN Append(ob[c], msg) ELSE ob[c]]
BroadcastUnguarded(ob, conns, sender, msg) ==
    [c \in DOMAIN ob |->
        IF c \in conns /\ conns \cap broken = {} THEN Append(ob[c], msg) ELSE ob[c]]
Broadcast(ob, conns, sender, msg) ==
    [c \in DOMAIN ob |->
        IF c \in conns /\ c \notin broken THEN Append(ob[c], msg) ELSE ob[c]]

\* room.ts:236-240: one record per playerId, the last one set
RECURSIVE DedupPlayers(_, _)
DedupPlayers(pp, acc) ==
    IF pp = <<>>
    THEN acc
    ELSE DedupPlayers(Tail(pp),
             MapSet(acc, [k |-> Head(pp).playerId, cursor |-> Head(pp).cursor]))

PresenceMsg(pp) ==
    LET m == DedupPlayers(pp, <<>>)
    IN [type |-> "presence",
        players |-> [i \in 1..Len(m) |-> [playerId |-> m[i].k, cursor |-> m[i].cursor]]]

\* room.ts:234-242
BroadcastPresence(ob, conns, pp) == Broadcast(ob, conns, Undefined, PresenceMsg(pp))

RejectMsg == [type |-> "reject", reason |-> "rate", retryAfterMs |-> RetryAfterMs]
ApplyMsg(applied, version) == [type |-> "apply", ops |-> applied, version |-> version]
WelcomeMsgFresh(playerId, cv) ==
    [type |-> "welcome", playerId |-> playerId, state |-> <<>>, version |-> 0]
WelcomeMsg(playerId, cv) ==
    [type |-> "welcome", playerId |-> playerId, state |-> PackState(cv.voxels),
     version |-> cv.version]

\* room.ts:250-264: the timer held and the timers pending after schedulePersist;
\* the first two are a schedulePersist that does not clear the timer it
\* replaces and one that sets no timer
SchedulePersistKeeps(timer, pending) ==
    [timer |-> timer + 1, pending |-> pending \cup {timer + 1}]
SchedulePersistClears(timer, pending) ==
    [timer |-> timer + 1, pending |-> pending \ {timer}]
SchedulePersist(timer, pending) ==
    [timer |-> timer + 1,
     pending |-> (IF timer # 0 THEN pending \ {timer} ELSE pending) \cup {timer + 1}]

----------------------------------------------------------------------------
(* Inputs *)

Op(k, color, t) == [type |-> "set", k |-> k, color |-> color, t |-> t, by |-> "p1"]

\* 2^31 + 5: a client timestamp that does not fit in 32 bits
BigT == Num(1, 5)

Set0(color, t) == Op(Small(0), color, t)

\* n operations on a cell outside the grid
PadOp == Op(Small(GridCells), Red, Small(0))
Pad(n) == [i \in 1..n |-> PadOp]

\* Batches of one operation on cell 0: a timestamp behind the clock, one ahead
\* of it, one that does not fit in 32 bits, and one equal to the timestamp the
\* coordinator gives to the first operation of a room.
SingleBatches ==
    {<<Set0(Red, Small(0))>>, <<Set0(Green, Small(2))>>, <<Set0(Null, BigT)>>,
     <<Set0(Red, Small(1))>>}

\* Batches of several operations: two sets of one cell, and a clear of another
\* cell behind an operation outside the grid.
MultiBatches ==
    {<<Set0(Red, Small(0)), Set0(Green, Small(0))>>,
     <<Op(Small(-1), Green, Small(0)), Op(Small(GridCells - 1), Null, Small(-1))>>}

\* batches that take the whole bucket, and one more than the bucket holds
LongBatches ==
    {<<Set0(Red, Small(0))>> \o Pad(BucketCap - 1), Pad(BucketCap + 1)}

Batches == SingleBatches \cup MultiBatches \cup LongBatches

UnitBatches == {<<Set0(Red, Small(0))>>, <<PadOp>>, Pad(2)}

SetMsg(ops) == [type |-> "set", ops |-> ops]
HelloMsg(playerId) == [type |-> "hello", playerId |-> playerId]
CursorMsg(cursor) == [type |-> "presence", cursor |-> cursor]

\* the JSON value null, as a message and as an element of ops
JsonNull == [json |-> "null"]

PlayerIds == {"p1", "p2"}
\* the pages have been in a room before: each has its playerId stored
PlayerOf(c) == IF c = Painter THEN "p1" ELSE "p2"
FreshIds == {"r1", "r2"}
TickSteps == {25}

----------------------------------------------------------------------------
(* The state after construction of a room with empty durable storage *)

NoAccepted == [some |-> FALSE, t |-> 0, color |-> Undefined]

Init ==
    /\ canvas = [voxels |-> <<>>, lamport |-> 0, version |-> 0]
    /\ connections = {}
    /\ closed = {}
    /\ bucketMap = <<>>
    /\ playerPresence = <<>>
    /\ persistTimer = 0
    /\ pendingTimers = {}
    /\ now = 0
    /\ outbox = [c \in Conns |-> <<>>]
    /\ toServer = [c \in Conns |-> <<>>]
    /\ local = [c \in Conns |-> <<>>]
    /\ welcomed = {}
    /\ clicks = [c \in Conns |-> 0]
    /\ storedId = [c \in Conns |-> PlayerOf(c)]
    /\ ev = [type |-> "init"]
    /\ assigned = <<>>
    /\ lastAcc = [k \in Cells |-> NoAccepted]
    /\ effBatches = 0
    /\ openAt = <<>>
    /\ spent = [c \in Conns |-> 0]
    /\ handled = 0
    /\ connectedAt = [c \in Conns |-> 0]
    /\ storage = [voxels |-> <<>>, meta |-> <<>>]
    /\ flushing = FALSE
    /\ staticRooms = <<>>
    /\ lastSpend = [c \in Conns |-> 0]
    /\ prevEv = [type |-> "init"]
    /\ routed = {}
    /\ flushed = {}
    /\ timerDue = <<>>
    /\ acceptedAt = 0
    /\ pos = <<0, 0, 0>>
    /\ picked = 0
    /\ broken = {}

\* every socket in conns has room for one more message
Room(conns) == \A x \in conns : Len(outbox[x]) < MaxOut

----------------------------------------------------------------------------
(* Handlers of the coordinator.  They say what becomes of the coordinator's *)
(* fields and of the sockets' outgoing messages; toServer, the clients, the *)
(* worker's clock and the history are left to the action that runs them.    *)

\* room.ts:96-99: a socket is accepted
HandleSocket(c) ==
    /\ c \notin connections \cup closed
    /\ connections' = connections \cup {c}
    /\ bucketMap' = [x \in DOMAIN bucketMap \cup {c} |->
                        IF x = c THEN NewBucket(now) ELSE bucketMap[x]]
    /\ UNCHANGED <<canvas, closed, playerPresence, persistTimer, pendingTimers, outbox>>

\* room.ts:118-124: the close event of a socket; the first one is a listener
\* that forgets to delete the bucket
OnCloseKeepsBucket(c) ==
    /\ c \in connections
    /\ Room(connections \ {c})
    /\ connections' = connections \ {c}
    /\ closed' = closed \cup {c}
    /\ playerPresence' = MapDelete(playerPresence, c)
    /\ outbox' = BroadcastPresence(outbox, connections \ {c}, MapDelete(playerPresence, c))
    /\ UNCHANGED <<canvas, bucketMap, persistTimer, pendingTimers>>
OnClose(c) ==
    /\ c \in connections
    /\ Room(connections \ {c})
    /\ connections' = connections \ {c}
    /\ closed' = closed \cup {c}
    /\ bucketMap' = [x \in DOMAIN bucketMap \ {c} |-> bucketMap[x]]
    /\ playerPresence' = MapDelete(playerPresence, c)
    /\ outbox' = BroadcastPresence(outbox, connections \ {c}, MapDelete(playerPresence, c))
    /\ UNCHANGED <<canvas, persistTimer, pendingTimers>>

\* room.ts:149-162; the first one ignores the hello of a socket that has a
\* presence record
HandleHelloOnce(c, msg) ==
    \E rid \in FreshIds :
        LET playerId == IF msg.playerId # Undefined THEN msg.playerId ELSE rid
        IN IF MapHas(playerPresence, c)
           THEN UNCHANGED <<serverVars, outbox>>
           ELSE /\ Room({c})
                /\ playerPresence' =
                       MapSet(playerPresence, [k |-> c, playerId |-> playerId, cursor |-> Undefined])
                /\ outbox' = Send(outbox, c, WelcomeMsg(playerId, canvas))
                /\ UNCHANGED <<canvas, connections, closed, bucketMap, persistTimer,
                               pendingTimers>>
HandleHello(c, msg) ==
    \E rid \in FreshIds :
        LET playerId == IF msg.playerId # Undefined THEN msg.playerId ELSE rid
        IN /\ Room({c})
           /\ playerPresence' =
                  MapSet(playerPresence, [k |-> c, playerId |-> playerId, cursor |-> Undefined])
           /\ outbox' = Send(outbox, c, WelcomeMsg(playerId, canvas))
           /\ UNCHANGED <<canvas, connections, closed, bucketMap, persistTimer,
                          pendingTimers>>

\* room.ts:169 and 178-184: the verdict of the limiter on a batch from socket c
\* and the resolution of the batch on the canvas
\* room.ts:194: reading op.k of null throws; the operations before the first
\* null of a batch are the ones the loop of handleSetOps gets through
Throws(op) == op = JsonNull
BeforeThrow(ops) ==
    IF \E i \in 1..Len(ops) : Throws(ops[i])
    THEN SubSeq(ops, 1, (CHOOSE i \in 1..Len(ops) :
                            Throws(ops[i]) /\ \A j \in 1..(i - 1) : ~Throws(ops[j])) - 1)
    ELSE ops

SetOpsOutcome(c, ops) ==
    LET has == c \in DOMAIN bucketMap
        chk == IF has THEN CheckBucket(bucketMap[c], now, Len(ops))
                      ELSE [ok |-> FALSE, bucket |-> Undefined]
    IN [has |-> has, ok |-> chk.ok, bucket |-> chk.bucket,
        threw |-> chk.ok /\ BeforeThrow(ops) # ops,
        r |-> IF chk.ok THEN ApplyBatch(canvas, BeforeThrow(ops))
                        ELSE [canvas |-> canvas, applied |-> <<>>, trace |-> <<>>]]

\* room.ts:164-191
HandleSetOps(c, msg) ==
    LET o == SetOpsOutcome(c, msg.ops)
        version == NextVersion(canvas.version, o.r.applied)
        sp == SchedulePersist(persistTimer, pendingTimers)
    IN /\ bucketMap' = IF o.has THEN [bucketMap EXCEPT ![c] = o.bucket] ELSE bucketMap
       /\ UNCHANGED <<connections, closed, playerPresence>>
       /\ IF ~o.ok
          THEN /\ Room({c})
               /\ outbox' = Send(outbox, c, RejectMsg)
               /\ UNCHANGED <<canvas, persistTimer, pendingTimers>>
          ELSE IF o.threw
          THEN \* the exception leaves handleSetOps before room.ts:186
               /\ canvas' = o.r.canvas
               /\ UNCHANGED <<persistTimer, pendingTimers, outbox>>
          ELSE /\ canvas' = [o.r.canvas EXCEPT !.version = version]
               /\ IF Len(o.r.applied) > 0
                  THEN /\ Room(connections)
                       /\ persistTimer' = sp.timer
                       /\ pendingTimers' = sp.pending
                       /\ outbox' = Broadcast(outbox, connections, c,
                                              ApplyMsg(o.r.applied, version))
                  ELSE UNCHANGED <<persistTimer, pendingTimers, outbox>>

\* room.ts:213-223
HandlePresence(c, msg) ==
    IF MapHas(playerPresence, c)
    THEN LET updatedPresence == [k |-> c, playerId |-> MapGet(playerPresence, c).playerId,
                                 cursor |-> msg.cursor]
         IN /\ Room(connections)
            /\ playerPresence' = MapSet(playerPresence, updatedPresence)
            /\ outbox' = BroadcastPresence(outbox, connections,
                                           MapSet(playerPresence, updatedPresence))
            /\ UNCHANGED <<canvas, connections, closed, bucketMap, persistTimer,
                           pendingTimers>>
    ELSE UNCHANGED <<serverVars, outbox>>

\* room.ts:127-147; the first one ignores a batch from a socket that has not
\* said hello
HandleMessageStrict(c, msg) ==
    IF msg.type = "hello"
    THEN HandleHello(c, msg)
    ELSE IF msg.type = "set"
         THEN IF MapHas(playerPresence, c)
              THEN HandleSetOps(c, msg)
              ELSE UNCHANGED <<serverVars, outbox>>
         ELSE IF msg.type = "presence"
              THEN HandlePresence(c, msg)
              ELSE FALSE
HandleMessage(c, msg) ==
    IF msg.type = "hello"
    THEN HandleHello(c, msg)
    ELSE IF msg.type = "set"
         THEN HandleSetOps(c, msg)
         ELSE IF msg.type = "presence"
              THEN HandlePresence(c, msg)
              ELSE FALSE

\* room.ts:107-116: the message listener of a socket.  data is what the socket
\* carried: text that is not JSON, or the value it parses to.  With the value
\* null, reading msg.type throws (room.ts:128) before anything is done.
OnMessage(c, data) ==
    IF ~data.parses \/ data.value = JsonNull
    THEN UNCHANGED <<serverVars, outbox>>
    ELSE HandleMessage(c, data.value)

----------------------------------------------------------------------------
(* History kept beside the handlers, for the statements about them *)

\* the greatest accepted operation per cell after the lines of a trace
RECURSIVE NoteAccepted(_, _)
NoteAccepted(acc, trace) ==
    IF trace = <<>>
    THEN acc
    ELSE LET e == Head(trace)
             acc1 == IF e.accepted /\ (~acc[e.k].some \/ e.t >= acc[e.k].t)
                     THEN [acc EXCEPT ![e.k] = [some |-> TRUE, t |-> e.t, color |-> e.op.color]]
                     ELSE acc
         IN NoteAccepted(acc1, Tail(trace))

TraceTimes(trace) ==
    LET v == SelectSeq(trace, LAMBDA e : e.valid)
    IN [i \in 1..Len(v) |-> v[i].t]

NoteSocket(c) ==
    /\ ev' = [type |-> "connect", conn |-> c]
    /\ connectedAt' = [connectedAt EXCEPT ![c] = now]
    /\ UNCHANGED <<assigned, lastAcc, effBatches, openAt, spent, handled>>

NoteClose(c) ==
    /\ ev' = [type |-> "close", conn |-> c]
    /\ UNCHANGED histVars

NoteHello(c, msg) ==
    /\ ev' = [type |-> "hello", conn |-> c, msg |-> msg]
    /\ UNCHANGED histVars

NoteSetOps(c, ops) ==
    LET o == SetOpsOutcome(c, ops)
    IN /\ ev' = [type |-> "set", conn |-> c, ops |-> ops, trace |-> o.r.trace]
       /\ handled' = handled + 1
       /\ assigned' = assigned \o TraceTimes(o.r.trace)
       /\ lastAcc' = NoteAccepted(lastAcc, SelectSeq(o.r.trace, LAMBDA e : e.accepted))
       /\ spent' = IF o.ok THEN [spent EXCEPT ![c] = @ + Len(ops)] ELSE spent
       /\ effBatches' = IF Len(o.r.applied) > 0 THEN effBatches + 1 ELSE effBatches
       /\ openAt' = IF Len(o.r.applied) > 0
                    THEN Append(openAt, [version |-> canvas'.version, conns |-> connections])
                    ELSE openAt
       /\ UNCHANGED connectedAt

----------------------------------------------------------------------------
(* Spec: the coordinator alone, fed every message a client could send *)

Connect ==
    \E c \in Conns :
        /\ HandleSocket(c)
        /\ NoteSocket(c)
        /\ UNCHANGED <<toServer, clientVars, now, diskVars, auxVars, hist2Vars>>

Close ==
    \E c \in Conns :
        /\ OnClose(c)
        /\ NoteClose(c)
        /\ UNCHANGED <<toServer, clientVars, now, diskVars, auxVars, hist2Vars>>

Hello ==
    \E c \in connections, p \in PlayerIds \cup {Undefined} :
        /\ HandleMessage(c, HelloMsg(p))
        /\ NoteHello(c, HelloMsg(p))
        /\ UNCHANGED <<toServer, clientVars, now, diskVars, auxVars, hist2Vars>>

SetOps ==
    \E c \in connections, ops \in Batches :
        /\ handled < MaxBatches
        /\ HandleMessage(c, SetMsg(ops))
        /\ NoteSetOps(c, ops)
        /\ UNCHANGED <<toServer, clientVars, now, diskVars, auxVars, hist2Vars>>

Tick ==
    \E d \in TickSteps :
        /\ now + d <= MaxNow
        /\ now' = now + d
        /\ ev' = [type |-> "tick"]
        /\ UNCHANGED <<serverVars, outbox, toServer, clientVars, histVars, diskVars,
                       auxVars, hist2Vars>>

Next == Connect \/ Close \/ SetOps

Spec == Init /\ [][Next]_vars

----------------------------------------------------------------------------
(* SpecBucket: one socket that sends small batches while the clock runs *)

ConnectPainter ==
    /\ HandleSocket(Painter)
    /\ NoteSocket(Painter)
    /\ UNCHANGED <<toServer, clientVars, now, diskVars, auxVars, hist2Vars>>

UnitSetOps ==
    \E ops \in UnitBatches :
        /\ Painter \in connections
        /\ HandleMessage(Painter, SetMsg(ops))
        /\ NoteSetOps(Painter, ops)
        /\ UNCHANGED <<toServer, clientVars, now, diskVars, auxVars, hist2Vars>>

NextBucket == ConnectPainter \/ UnitSetOps \/ Tick

SpecBucket == Init /\ [][NextBucket]_vars

----------------
(* SpecClient: the coordinator with the browser clients of GameRoom.tsx.  *)
(* Messages wait in toServer and outbox until the other side handles them. *)

\* Date.now() in a browser: 1700000000000 = 791 * 2^31 + 1340434432
DateNow == Num(791, 1340434432)

ClickCells == {0}
Palette == {Red}

ClickBudget(c) == IF c = Painter THEN BurstClicks ELSE ObserverClicks

\* voxels.ts:3-11
RECURSIVE Unpack(_, _)
Unpack(packed, map) ==
    IF packed = <<>>
    THEN map
    ELSE LET k == Head(packed)[1]
             hex == Head(packed)[2]
         IN Unpack(Tail(packed),
                   [x \in DOMAIN map \cup {k} |-> IF x = k THEN hex ELSE map[x]])

\* GameRoom.tsx:53-59 and 81-88: one operation on a copy of voxelState
LocalOp(map, k, color) ==
    IF color = Null
    THEN [x \in DOMAIN map \ {k} |-> map[x]]
    ELSE [x \in DOMAIN map \cup {k} |-> IF x = k THEN color ELSE map[x]]

\* GameRoom.tsx:78-91: onApply
RECURSIVE LocalApply(_, _)
LocalApply(map, ops) ==
    IF ops = <<>>
    THEN map
    ELSE LocalApply(LocalOp(map, Head(ops).k, Head(ops).color), Tail(ops))

\* ws.ts:16-28: the socket is opened; the coordinator accepts it and the
\* client's onopen sends hello
ClientConnect ==
    \E c \in Conns :
        /\ HandleSocket(c)
        /\ toServer' = [toServer EXCEPT ![c] =
               <<HelloMsg(IF storedId[c] = Null THEN Undefined ELSE storedId[c])>>]
        /\ UNCHANGED <<clientVars, now, ev, histVars, diskVars, auxVars, hist2Vars>>

\* GameRoom.tsx:50-74 with scene.ts:190-208: a click places the current color
\* on a cell, or removes a voxel the page shows
ClientClick ==
    \E c \in connections, k \in ClickCells, color \in Palette \cup {Null} :
        /\ clicks[c] < ClickBudget(c)
        /\ Len(toServer[c]) < ClientOut
        /\ color = Null => k \in DOMAIN local[c]
        /\ local' = [local EXCEPT ![c] = LocalOp(@, k, color)]
        /\ toServer' = [toServer EXCEPT ![c] = Append(@,
               SetMsg(<<[type |-> "set", k |-> Small(k), color |-> color,
                         t |-> DateNow, by |-> storedId[c]]>>))]
        /\ clicks' = [clicks EXCEPT ![c] = @ + 1]
        /\ UNCHANGED <<serverVars, outbox, welcomed, storedId, now, ev, histVars,
                       diskVars, auxVars, hist2Vars>>

\* room.ts:107-116: the coordinator handles the next message of a socket
ServerReceive ==
    \E c \in connections :
        /\ toServer[c] # <<>>
        /\ \A x \in connections : Len(outbox[x]) < ClientIn
        /\ HandleMessage(c, Head(toServer[c]))
        /\ toServer' = [toServer EXCEPT ![c] = Tail(@)]
        /\ UNCHANGED <<clientVars, now, ev, histVars, diskVars, auxVars, hist2Vars>>

\* ws.ts:29-39 with GameRoom.tsx:78-102: the client handles the next message
ClientReceive ==
    \E c \in Conns :
        /\ outbox[c] # <<>>
        /\ outbox' = [outbox EXCEPT ![c] = Tail(@)]
        /\ LET msg == Head(outbox[c])
           IN IF msg.type = "welcome"
              THEN /\ storedId' = [storedId EXCEPT ![c] = msg.playerId]
                   /\ local' = [local EXCEPT ![c] = Unpack(msg.state, <<>>)]
                   /\ welcomed' = welcomed \cup {c}
              ELSE IF msg.type = "apply"
              THEN /\ local' = [local EXCEPT ![c] = LocalApply(@, msg.ops)]
                   /\ UNCHANGED <<storedId, welcomed>>
              ELSE UNCHANGED <<local, storedId, welcomed>>
        /\ UNCHANGED <<serverVars, toServer, clicks, now, ev, histVars, diskVars,
                       auxVars, hist2Vars>>

NextClient == ClientConnect \/ ClientClick \/ ServerReceive \/ ClientReceive

SpecClient == Init /\ [][NextClient]_vars

----------------------------------------------------------------------------
(* SpecRefill: one socket that spends its bucket and waits for it to refill *)

\* room.ts:283-284: the time in which an empty bucket is filled
FullAfterMs == BucketCap * RefillMs

\* two waits that make FullAfterMs together, neither a multiple of RefillMs
WaitSteps == {FullAfterMs \div 2 + (RefillMs - 1), FullAfterMs \div 2 - (RefillMs - 1)}

\* a batch that takes the whole bucket, a batch of one operation that leaves
\* no message when it is permitted, and a batch of one operation more than
\* the bucket can hold, the first of them on a cell of the grid
Oversized == <<Set0(Green, Small(0))>> \o Pad(BucketCap)
RefillBatches == {<<Set0(Red, Small(0))>> \o Pad(BucketCap - 1), <<PadOp>>, Oversized}

RefillConnect ==
    /\ HandleSocket(Painter)
    /\ ev' = [type |-> "connect", conn |-> Painter]
    /\ lastSpend' = [lastSpend EXCEPT ![Painter] = now]
    /\ UNCHANGED <<toServer, clientVars, now, histVars, diskVars, auxVars, prevEv>>

RefillSetOps ==
    \E ops \in RefillBatches :
        /\ Painter \in connections
        /\ HandleMessage(Painter, SetMsg(ops))
        /\ LET o == SetOpsOutcome(Painter, ops)
           IN /\ ev' = [type |-> "set", conn |-> Painter, ops |-> ops,
                        trace |-> o.r.trace, ok |-> o.ok]
              /\ lastSpend' = IF o.ok THEN [lastSpend EXCEPT ![Painter] = now]
                                      ELSE lastSpend
        /\ UNCHANGED <<toServer, clientVars, now, histVars, diskVars, auxVars, prevEv>>

Wait ==
    \E d \in WaitSteps :
        /\ now + d <= MaxWaitNow
        /\ now' = now + d
        /\ ev' = [type |-> "wait"]
        /\ UNCHANGED <<serverVars, outbox, toServer, clientVars, histVars, diskVars,
                       auxVars, hist2Vars>>

NextRefill == RefillConnect \/ RefillSetOps \/ Wait

SpecRefill == Init /\ [][NextRefill]_vars

----------------------------------------------------------------------------
(* SpecPair: two sockets that write the same cell, and cells off the grid *)

\* a set of cell 100 with client timestamp 5
PairOp(color) == Op(Small(100), color, Small(5))

\* 2^32 + 100: a cell value that does not fit in 32 bits
WrapKey == Num(2, 100)

\* the two sets of cell 100, a set of cell 2^32 + 100, and a batch of a
\* negative cell and of cell 8000
PairBatches ==
    {<<PairOp("#112233")>>, <<PairOp("#445566")>>,
     <<Op(WrapKey, Red, Small(5))>>,
     <<Op(Small(-1), Red, Small(5)), Op(Small(GridCells), Green, Small(5))>>}

PairConnect ==
    \E c \in Conns :
        /\ HandleSocket(c)
        /\ ev' = [type |-> "connect", conn |-> c]
        /\ prevEv' = ev
        /\ UNCHANGED <<toServer, clientVars, now, histVars, diskVars, auxVars, lastSpend>>

PairSetOps ==
    \E c \in connections, ops \in PairBatches :
        /\ InitTokens - bucketMap[c].tokens < MaxPairOps
        /\ HandleMessage(c, SetMsg(ops))
        /\ LET o == SetOpsOutcome(c, ops)
           IN ev' = [type |-> "set", conn |-> c, ops |-> ops,
                     trace |-> o.r.trace, ok |-> o.ok]
        /\ prevEv' = ev
        /\ UNCHANGED <<toServer, clientVars, now, histVars, diskVars, auxVars, lastSpend>>

NextPair == PairConnect \/ PairSetOps

SpecPair == Init /\ [][NextPair]_vars

----------------------------------------------------------------------------
(* Durable storage, the HTTP routes of a room, and the restart of the     *)
(* Durable Object                                                          *)

\* room.ts:323-326: one turn of the loop of seedDemo
SeedStep(cv, i) ==
    LET t == cv.lamport + 1
    IN [cv EXCEPT !.lamport = t,
                  !.voxels = MapSet(@, [k |-> i + i * 20 + i * 400, color |-> "#FF00FF",
                                        t |-> t, by |-> Undefined])]

RECURSIVE SeedLoop(_, _)
SeedLoop(cv, i) == IF i < SeedCount THEN SeedLoop(SeedStep(cv, i), i + 1) ELSE cv

\* room.ts:321-327: the canvas after seedDemo, before its persist
SeedDemo(cv) == [SeedLoop(cv, 0) EXCEPT !.version = @ + 1]

\* room.ts:268: the first put of persist
PutVoxels(st, cv) == [st EXCEPT !.voxels = PackState(cv.voxels)]

\* room.ts:269-272: the second put of persist
PutMetaOfNothing(st, cv) == st
PutMetaOf(st, cv) ==
    [st EXCEPT !.meta = <<[version |-> cv.version, lamport |-> cv.lamport]>>]

\* room.ts:38-39: one stored entry as a record of the store
Unpacked(entry) ==
    [k |-> entry[1], color |-> entry[2],
     t |-> IF Len(entry) = 3 THEN entry[3] ELSE 0, by |-> Undefined]

RECURSIVE RehydrateVoxels(_, _)
RehydrateVoxels(packed, voxels) ==
    IF packed = <<>> THEN voxels
    ELSE RehydrateVoxels(Tail(packed), MapSet(voxels, Unpacked(Head(packed))))

\* room.ts:26-43: the canvas of a new instance over the storage
Rehydrate(st) ==
    [voxels |-> RehydrateVoxels(st.voxels, <<>>),
     lamport |-> IF st.meta # <<>> THEN st.meta[1].lamport ELSE 0,
     version |-> IF st.meta # <<>> THEN st.meta[1].version ELSE 0]

\* room.ts:301-308: the export of freezeRoom; the second one is the export a
\* freeze would make of what has been flushed
StaticRoomDataFlushed(cv, nowv, roomSlug) ==
    [version |-> Rehydrate(storage).version, voxels |-> storage.voxels,
     frozenAt |-> nowv, metadata |-> [roomSlug |-> roomSlug]]
StaticRoomData(cv, nowv, roomSlug) ==
    [version |-> cv.version, voxels |-> PackState(cv.voxels), frozenAt |-> nowv,
     metadata |-> [roomSlug |-> roomSlug]]

\* index.ts:38-47: the welcome the router sends for a frozen room
StaticWelcome(roomData) ==
    [type |-> "welcome", playerId |-> "static-viewer", state |-> roomData.voxels,
     version |-> roomData.version, isStatic |-> TRUE]

----------------------------------------------------------------------------
(* SpecRoom: a room with its storage: sockets, hello, set, seed, the flush *)
(* in its two puts, freeze, and the restart of the instance                *)

RoomBatches == {<<Set0(Red, Small(0))>>}

roomRest == <<toServer, clientVars, now, histVars, hist2Vars, auxVars>>

\* index.ts:14-62 and room.ts:49-53: a request for /ws
RoomConnect ==
    \E c \in Conns :
        /\ c \notin connections \cup closed
        /\ IF staticRooms # <<>>
           THEN /\ outbox' = Send(outbox, c, StaticWelcome(staticRooms[1]))
                /\ closed' = closed \cup {c}
                /\ UNCHANGED <<canvas, connections, bucketMap, playerPresence,
                               persistTimer, pendingTimers>>
           ELSE HandleSocket(c)
        /\ ev' = [type |-> "connect", conn |-> c]
        /\ UNCHANGED <<diskVars, roomRest>>

\* part_001:19-27: a client says hello once, when its socket opens
RoomHello ==
    \E c \in connections : \E p \in {PlayerOf(c), Undefined} :
        /\ ~MapHas(playerPresence, c)
        /\ HandleMessage(c, HelloMsg(p))
        /\ ev' = [type |-> "hello", conn |-> c, msg |-> HelloMsg(p)]
        /\ UNCHANGED <<diskVars, roomRest>>

RoomSetOps ==
    \E c \in connections, ops \in RoomBatches :
        /\ canvas.lamport < MaxLamport
        /\ HandleMessage(c, SetMsg(ops))
        /\ LET o == SetOpsOutcome(c, ops)
           IN ev' = [type |-> "set", conn |-> c, ops |-> ops,
                     trace |-> o.r.trace, ok |-> o.ok]
        /\ UNCHANGED <<diskVars, roomRest>>

\* room.ts:63-72 and 321-329: POST /seed; persist has made its first put when
\* seedDemo waits
Seed ==
    /\ canvas.lamport < MaxLamport
    /\ canvas' = SeedDemo(canvas)
    /\ storage' = PutVoxels(storage, SeedDemo(canvas))
    /\ flushing' = TRUE
    /\ ev' = [type |-> "seed"]
    /\ UNCHANGED <<connections, closed, bucketMap, playerPresence, persistTimer,
                   pendingTimers, outbox, staticRooms, roomRest>>

\* room.ts:257-263 and 268: a timer of schedulePersist fires
TimerFires ==
    \E t \in pendingTimers :
        /\ pendingTimers' = pendingTimers \ {t}
        /\ storage' = PutVoxels(storage, canvas)
        /\ flushing' = TRUE
        /\ ev' = [type |-> "timer"]
        /\ UNCHANGED <<canvas, connections, closed, bucketMap, playerPresence,
                       persistTimer, outbox, staticRooms, roomRest>>

\* room.ts:269-272
PutMeta ==
    /\ flushing
    /\ storage' = PutMetaOf(storage, canvas)
    /\ flushing' = FALSE
    /\ ev' = [type |-> "meta"]
    /\ UNCHANGED <<serverVars, outbox, staticRooms, roomRest>>

\* room.ts:273-276 and 260-262: the second put is rejected
PutMetaFails ==
    /\ flushing
    /\ flushing' = FALSE
    /\ ev' = [type |-> "metafails"]
    /\ UNCHANGED <<serverVars, outbox, storage, staticRooms, roomRest>>

\* room.ts:15-43: the instance is discarded (eviction, crash, deploy) and a
\* new one is constructed over the storage.  Its sockets are gone with it;
\* the socket names stand for new sockets from here on.
Restart ==
    /\ canvas' = Rehydrate(storage)
    /\ connections' = {}
    /\ closed' = {}
    /\ bucketMap' = <<>>
    /\ playerPresence' = <<>>
    /\ persistTimer' = 0
    /\ pendingTimers' = {}
    /\ outbox' = [c \in Conns |-> <<>>]
    /\ flushing' = FALSE
    /\ ev' = [type |-> "restart"]
    /\ UNCHANGED <<storage, staticRooms, roomRest>>

\* room.ts:74-91 and 299-319: POST /freeze
Freeze ==
    /\ staticRooms' = <<StaticRoomData(canvas, now, "room")>>
    /\ ev' = [type |-> "freeze", success |-> TRUE]
    /\ UNCHANGED <<serverVars, outbox, storage, flushing, roomRest>>

\* room.ts:315-318: the put to STATIC_ROOMS throws
FreezeFails ==
    /\ ev' = [type |-> "freeze", success |-> FALSE]
    /\ UNCHANGED <<serverVars, outbox, diskVars, roomRest>>

NextRoom ==
    \/ RoomConnect \/ RoomHello \/ RoomSetOps \/ Seed \/ TimerFires
    \/ PutMeta \/ PutMetaFails \/ Restart \/ Freeze \/ FreezeFails

SpecRoom == Init /\ [][NextRoom]_vars

----------------------------------------------------------------------------
(* SpecFreeze: the router and the coordinator as the two processes they    *)
(* are: a /ws request is looked up in STATIC_ROOMS by the router and, when *)
(* nothing is found, forwarded; the coordinator receives it later.  Freeze *)
(* requests succeed or fail in between.                                    *)

\* room.ts:299-319: the verdict of freezeRoom and what STATIC_ROOMS holds
\* after it; putOk says whether the put succeeds.  The second one is a
\* freezeRoom whose export is stored although the put reports failure.
FreezeRoomStores(cv, sr, nowv, roomSlug, putOk) ==
    [success |-> putOk, staticRooms |-> <<StaticRoomData(cv, nowv, roomSlug)>>]
FreezeRoom(cv, sr, nowv, roomSlug, putOk) ==
    [success |-> putOk,
     staticRooms |-> IF putOk THEN <<StaticRoomData(cv, nowv, roomSlug)>> ELSE sr]

\* room.ts:79-90: the response of /freeze
FreezeResponse(success) ==
    IF success
    THEN [status |-> 200, success |-> TRUE, message |-> "Room frozen and saved statically"]
    ELSE [status |-> 500, success |-> FALSE, message |-> "Failed to freeze room"]

freezeRest == <<toServer, clientVars, now, histVars, lastSpend, flushed, timeVars,
                pickVars, broken>>

\* index.ts:14-62: the router handles a request for /ws
RouteWs ==
    \E c \in Conns :
        /\ c \notin connections \cup closed \cup routed
        /\ IF staticRooms # <<>>
           THEN /\ outbox' = Send(outbox, c, StaticWelcome(staticRooms[1]))
                /\ closed' = closed \cup {c}
                /\ UNCHANGED routed
           ELSE /\ routed' = routed \cup {c}
                /\ UNCHANGED <<outbox, closed>>
        /\ ev' = [type |-> "route", conn |-> c, static |-> staticRooms # <<>>]
        /\ prevEv' = ev
        /\ UNCHANGED <<canvas, connections, bucketMap, playerPresence, persistTimer,
                       pendingTimers, diskVars, freezeRest>>

\* room.ts:49-53: the coordinator receives a forwarded request for /ws
AcceptWs ==
    \E c \in routed :
        /\ HandleSocket(c)
        /\ routed' = routed \ {c}
        /\ ev' = [type |-> "accept", conn |-> c]
        /\ prevEv' = ev
        /\ UNCHANGED <<diskVars, freezeRest>>

FreezeSetOps ==
    \E c \in connections :
        /\ canvas.lamport < MaxFreezeOps
        /\ HandleMessage(c, SetMsg(<<Set0(Red, Small(0))>>))
        /\ LET o == SetOpsOutcome(c, <<Set0(Red, Small(0))>>)
           IN ev' = [type |-> "set", conn |-> c, ops |-> <<Set0(Red, Small(0))>>,
                     trace |-> o.r.trace, ok |-> o.ok]
        /\ prevEv' = ev
        /\ UNCHANGED <<routed, diskVars, freezeRest>>

\* room.ts:74-91: POST /freeze
FreezeRequest ==
    \E putOk \in BOOLEAN :
        LET f == FreezeRoom(canvas, staticRooms, now, "room", putOk)
        IN /\ staticRooms' = f.staticRooms
           /\ ev' = [type |-> "freeze", success |-> f.success,
                     response |-> FreezeResponse(f.success)]
           /\ prevEv' = ev
           /\ UNCHANGED <<serverVars, outbox, routed, storage, flushing, freezeRest>>

NextFreeze == RouteWs \/ AcceptWs \/ FreezeSetOps \/ FreezeRequest

SpecFreeze == Init /\ [][NextFreeze]_vars

----------------------------------------------------------------------------
(* SpecDebounce: one socket paints while the worker's clock runs; a timer   *)
(* of schedulePersist fires when it is due; each put of persist succeeds    *)
(* or throws.  SpecDurable is the same room with puts that succeed and with *)
(* a clock and timers that do not stall.                                    *)

DebBatches == {<<Set0(Red, Small(0))>>, <<Set0(Null, Small(0))>>}
DebSteps == {PersistDelayMs \div 2}

debRest == <<toServer, clientVars, histVars, lastSpend, routed, flushed, pickVars, broken>>

\* room.ts:257-263: setTimeout(..., 500) makes the timer just set due 500 ms
\* from now; the timers still pending keep their time
DueAfter(due, timer, pending) ==
    [t \in pending |-> IF t = timer THEN now + PersistDelayMs ELSE due[t]]

DebConnect ==
    /\ HandleSocket(Painter)
    /\ ev' = [type |-> "connect", conn |-> Painter]
    /\ prevEv' = ev
    /\ UNCHANGED <<now, diskVars, timeVars, debRest>>

DebSetOps ==
    \E ops \in DebBatches :
        /\ Painter \in connections
        /\ InitTokens - bucketMap[Painter].tokens < MaxDebOps
        /\ now + PersistDelayMs <= MaxDebNow
        /\ HandleMessage(Painter, SetMsg(ops))
        /\ LET o == SetOpsOutcome(Painter, ops)
               accepted == Len(o.r.applied) > 0
           IN /\ ev' = [type |-> "set", conn |-> Painter, ops |-> ops,
                        trace |-> o.r.trace, ok |-> o.ok, accepted |-> accepted]
              /\ timerDue' = IF accepted
                             THEN DueAfter(timerDue, persistTimer', pendingTimers')
                             ELSE timerDue
              /\ acceptedAt' = IF accepted THEN now ELSE acceptedAt
        /\ prevEv' = ev
        /\ UNCHANGED <<now, diskVars, debRest>>

DebWait ==
    \E d \in DebSteps :
        /\ now + d <= MaxDebNow
        /\ now' = now + d
        /\ ev' = [type |-> "wait"]
        /\ prevEv' = ev
        /\ UNCHANGED <<serverVars, outbox, diskVars, timeVars, debRest>>

\* room.ts:257-263 and 268: a due timer fires and persist makes its first put
DebFires ==
    \E t \in pendingTimers :
        /\ now >= timerDue[t]
        /\ pendingTimers' = pendingTimers \ {t}
        /\ timerDue' = [x \in pendingTimers \ {t} |-> timerDue[x]]
        /\ storage' = PutVoxels(storage, canvas)
        /\ flushing' = TRUE
        /\ ev' = [type |-> "timer", ok |-> TRUE]
        /\ prevEv' = ev
        /\ UNCHANGED <<canvas, connections, closed, bucketMap, playerPresence,
                       persistTimer, outbox, staticRooms, now, acceptedAt, debRest>>

\* room.ts:257-263 and 273-276: a due timer fires and the first put throws
DebFireFails ==
    \E t \in pendingTimers :
        /\ now >= timerDue[t]
        /\ pendingTimers' = pendingTimers \ {t}
        /\ timerDue' = [x \in pendingTimers \ {t} |-> timerDue[x]]
        /\ ev' = [type |-> "timer", ok |-> FALSE]
        /\ prevEv' = ev
        /\ UNCHANGED <<canvas, connections, closed, bucketMap, playerPresence,
                       persistTimer, outbox, diskVars, now, acceptedAt, debRest>>

\* room.ts:269-272
DebPutMeta ==
    /\ flushing
    /\ storage' = PutMetaOf(storage, canvas)
    /\ flushing' = FALSE
    /\ ev' = [type |-> "meta"]
    /\ prevEv' = ev
    /\ UNCHANGED <<serverVars, outbox, staticRooms, now, timeVars, debRest>>

\* room.ts:273-276 and 260-262: the second put throws
DebPutMetaFails ==
    /\ flushing
    /\ flushing' = FALSE
    /\ ev' = [type |-> "metafails"]
    /\ prevEv' = ev
    /\ UNCHANGED <<serverVars, outbox, storage, staticRooms, now, timeVars, debRest>>

NextDebounce ==
    \/ DebConnect \/ DebSetOps \/ DebWait \/ DebFires \/ DebFireFails
    \/ DebPutMeta \/ DebPutMetaFails

SpecDebounce == Init /\ [][NextDebounce]_vars

NextDurable == DebConnect \/ DebSetOps \/ DebWait \/ DebFires \/ DebPutMeta

SpecDurable ==
    /\ Init
    /\ [][NextDurable]_vars
    /\ WF_vars(DebWait)
    /\ WF_vars(DebFires)
    /\ WF_vars(DebPutMeta)

----------------------------------------------------------------------------
(* SpecPresence: sockets open, say hello, move their cursor and close.  The *)
(* pages may share one playerId (two tabs of a browser) or not.            *)

Cursors == {"[1,1,1]", "[2,2,2]"}

presRest == <<toServer, clientVars, now, histVars, diskVars, auxVars, hist2Vars>>

PresConnect ==
    \E c \in Conns :
        /\ HandleSocket(c)
        /\ ev' = [type |-> "connect", conn |-> c]
        /\ UNCHANGED presRest

\* part_001:19-27: a client says hello once, when its socket opens
PresHello ==
    \E c \in connections, p \in PlayerIds :
        /\ ~MapHas(playerPresence, c)
        /\ HandleMessage(c, HelloMsg(p))
        /\ ev' = [type |-> "hello", conn |-> c, msg |-> HelloMsg(p)]
        /\ UNCHANGED presRest

PresCursor ==
    \E c \in connections, cursor \in Cursors :
        /\ HandleMessage(c, CursorMsg(cursor))
        /\ ev' = [type |-> "presence", conn |-> c, msg |-> CursorMsg(cursor)]
        /\ UNCHANGED presRest

PresClose ==
    \E c \in connections :
        /\ OnClose(c)
        /\ ev' = [type |-> "close", conn |-> c]
        /\ UNCHANGED presRest

NextPresence == PresConnect \/ PresHello \/ PresCursor \/ PresClose

SpecPresence == Init /\ [][NextPresence]_vars

----------------------------------------------------------------------------
(* SpecFlush: batches on one cell, the flush in its two puts, and restarts *)
(* of the instance over what the storage holds                             *)

FlushBatches == {<<Set0(Red, Small(0))>>, <<Set0(Green, Small(0))>>, <<Set0(Null, Small(0))>>}

\* what a restart can bring back of an in-memory state: room.ts:244-248 and
\* 269-272
Snapshot(cv) ==
    [voxels |-> PackState(cv.voxels), version |-> cv.version, lamport |-> cv.lamport]

flushRest == <<toServer, clientVars, now, histVars, hist2Vars, routed, timeVars,
               pickVars, broken>>

FlushConnect ==
    /\ HandleSocket(Painter)
    /\ ev' = [type |-> "connect", conn |-> Painter]
    /\ UNCHANGED <<diskVars, flushed, flushRest>>

FlushSetOps ==
    \E ops \in FlushBatches :
        /\ Painter \in connections
        /\ canvas.lamport < MaxFlushLamport
        /\ InitTokens - bucketMap[Painter].tokens < MaxFlushOps
        /\ HandleMessage(Painter, SetMsg(ops))
        /\ LET o == SetOpsOutcome(Painter, ops)
           IN ev' = [type |-> "set", conn |-> Painter, ops |-> ops,
                     trace |-> o.r.trace, ok |-> o.ok]
        /\ UNCHANGED <<diskVars, flushed, flushRest>>

\* room.ts:257-263 and 268: a timer of schedulePersist fires and persist makes
\* its first put
FlushBegins ==
    \E t \in pendingTimers :
        /\ pendingTimers' = pendingTimers \ {t}
        /\ storage' = PutVoxels(storage, canvas)
        /\ flushing' = TRUE
        /\ flushed' = flushed \cup {Snapshot(canvas)}
        /\ ev' = [type |-> "timer"]
        /\ UNCHANGED <<canvas, connections, closed, bucketMap, playerPresence,
                       persistTimer, outbox, staticRooms, flushRest>>

NextFlush ==
    FlushConnect \/ FlushSetOps \/ FlushBegins \/ PutMeta \/ PutMetaFails \/ Restart

SpecFlush == Init /\ [][NextFlush]_vars

----------------------------------------------------------------------------
(* SpecRaw: sockets carry whatever a client puts on them                   *)

NotJson == [parses |-> FALSE]
Json(value) == [parses |-> TRUE, value |-> value]

\* text that is not JSON, null, a batch of one set, a batch of one clear, a
\* batch with null after a set, and a batch of null alone
RawData ==
    {NotJson, Json(JsonNull),
     Json(SetMsg(<<Set0(Red, Small(0))>>)),
     Json(SetMsg(<<Set0(Null, Small(0))>>)),
     Json(SetMsg(<<Set0(Green, Small(0)), JsonNull>>)),
     Json(SetMsg(<<JsonNull>>))}

rawRest == <<toServer, clientVars, now, histVars, diskVars, auxVars, hist2Vars>>

RawConnect ==
    \E c \in Conns :
        /\ HandleSocket(c)
        /\ ev' = [type |-> "connect", conn |-> c]
        /\ UNCHANGED rawRest

RawMessage ==
    \E c \in connections, data \in RawData :
        /\ InitTokens - bucketMap[c].tokens < MaxRawOps
        /\ OnMessage(c, data)
        /\ ev' = [type |-> "message", conn |-> c, data |-> data]
        /\ UNCHANGED rawRest

NextRaw == RawConnect \/ RawMessage

SpecRaw == Init /\ [][NextRaw]_vars

----------------------------------------------------------------------------
(* SpecPack: stores of one cell, of two, of the twenty seeded ones and of  *)
(* more are packed by the flush and unpacked by the next instance.         *)

PackBatches ==
    {<<Set0(Red, Small(0))>>, <<Set0(Null, Small(0))>>,
     <<Op(Small(GridCells - 1), Green, Small(0))>>}

PackSetOps ==
    \E ops \in PackBatches :
        /\ Painter \in connections
        /\ canvas.version < MaxPackVersion
        /\ InitTokens - bucketMap[Painter].tokens < MaxPackOps
        /\ HandleMessage(Painter, SetMsg(ops))
        /\ LET o == SetOpsOutcome(Painter, ops)
           IN ev' = [type |-> "set", conn |-> Painter, ops |-> ops,
                     trace |-> o.r.trace, ok |-> o.ok]
        /\ UNCHANGED <<diskVars, flushed, flushRest>>

NextPack ==
    \/ FlushConnect \/ PackSetOps \/ Seed \/ TimerFires
    \/ PutMeta \/ PutMetaFails \/ Restart

SpecPack == Init /\ [][NextPack]_vars

----------------------------------------------------------------------------
(* SpecKey: the client computes the key of a position and the position of *)
(* a key.                                                                  *)

\* voxels.ts:1; the first one gives a layer the stride of a row
KeyFlat(x, y, z) == x + y * 20 + z * 20
Key(x, y, z) == x + y * 20 + z * 400

\* voxels.ts:13-18; the first one leaves the y coordinate unreduced
UnpackKeyWide(k) == <<k % 20, k \div 20, k \div 400>>
UnpackKey(k) == <<k % 20, (k \div 20) % 20, k \div 400>>

Coords == 0..(GridSize - 1)

keyRest == <<serverVars, outbox, toServer, clientVars, now, histVars, diskVars,
             hist2Vars, routed, flushed, timeVars, broken>>

\* the client addresses the cell at a position it has picked
Pick ==
    \E x \in Coords, y \in Coords, z \in Coords :
        /\ ev.type = "init"
        /\ pos' = <<x, y, z>>
        /\ picked' = Key(x, y, z)
        /\ ev' = [type |-> "key"]
        /\ UNCHANGED keyRest

\* the client places the cell of a key it has received
Locate ==
    \E k \in 0..(GridCells - 1) :
        /\ ev.type = "init"
        /\ picked' = k
        /\ pos' = UnpackKey(k)
        /\ ev' = [type |-> "unpackKey"]
        /\ UNCHANGED keyRest

NextKey == Pick \/ Locate

SpecKey == Init /\ [][NextKey]_vars

----------------------------------------------------------------------------
(* SpecOpen: sockets paint, move their cursor and say hello in any order   *)
(* and any number of times, with an identity or without.                   *)

OpenBatches == {<<Set0(Red, Small(0))>>, <<Set0(Null, Small(0))>>}

\* part_001:19-27 sends the stored playerId, or none; nothing keeps a client
\* from sending hello again
OpenHello ==
    \E c \in connections :
      \E p \in {PlayerOf(c), Undefined} :
        /\ HandleMessage(c, HelloMsg(p))
        /\ ev' = [type |-> "hello", conn |-> c, msg |-> HelloMsg(p)]
        /\ UNCHANGED presRest

OpenSetOps ==
    \E c \in connections, ops \in OpenBatches :
        /\ InitTokens - bucketMap[c].tokens < MaxOpenOps
        /\ HandleMessage(c, SetMsg(ops))
        /\ ev' = [type |-> "set", conn |-> c, ops |-> ops]
        /\ UNCHANGED presRest

OpenCursor ==
    \E c \in connections :
        /\ HandleMessage(c, CursorMsg("[1,1,1]"))
        /\ ev' = [type |-> "presence", conn |-> c, msg |-> CursorMsg("[1,1,1]")]
        /\ UNCHANGED presRest

NextOpen == PresConnect \/ OpenHello \/ OpenSetOps \/ OpenCursor

SpecOpen == Init /\ [][NextOpen]_vars

----------------------------------------------------------------------------
(* SpecStale: one instance, never restarted; sockets connect, say hello,   *)
(* paint with timestamps of their choosing and close, and seeds are        *)
(* requested in between.                                                   *)

LateT == Small(1000)

\* a set with the clock of a fresh client, one with a late timestamp, a clear
\* with a timestamp that does not fit in 32 bits, a clear of a seeded cell
\* with a negative timestamp, and a late set followed by an early one
StaleBatches ==
    {<<Set0(Red, Small(0))>>,
     <<Set0(Green, LateT)>>,
     <<Set0(Null, BigT)>>,
     <<Op(Small(421), Null, Small(-1))>>,
     <<Set0(Red, LateT), Set0(Green, Small(0))>>}

StaleSetOps ==
    \E c \in connections, ops \in StaleBatches :
        /\ InitTokens - bucketMap[c].tokens < MaxStaleOps
        /\ HandleMessage(c, SetMsg(ops))
        /\ LET o == SetOpsOutcome(c, ops)
           IN ev' = [type |-> "set", conn |-> c, ops |-> ops,
                     trace |-> o.r.trace, ok |-> o.ok]
        /\ UNCHANGED presRest

\* room.ts:93 and 321-329: POST /seed, with both puts of its persist
StaleSeed ==
    /\ canvas.version < MaxStaleVersion
    /\ canvas' = SeedDemo(canvas)
    /\ storage' = PutMetaOf(PutVoxels(storage, SeedDemo(canvas)), SeedDemo(canvas))
    /\ ev' = [type |-> "seed"]
    /\ UNCHANGED <<connections, closed, bucketMap, playerPresence, persistTimer,
                   pendingTimers, outbox, flushing, staticRooms, roomRest>>

NextStale == PresConnect \/ PresHello \/ StaleSetOps \/ StaleSeed \/ PresClose

SpecStale == Init /\ [][NextStale]_vars

----------------------------------------------------------------------------
(* SpecBroken: the send of a socket may start to throw (the peer is gone   *)
(* and the close event has not arrived yet) while other sockets paint and  *)
(* move their cursor.                                                      *)

brokenRest == <<toServer, clientVars, now, histVars, diskVars, hist2Vars, routed,
                flushed, timeVars, pickVars>>

\* room.ts:101-105 and 227-231: from now on ws.send of this socket throws
Break ==
    \E c \in connections \ broken :
        /\ broken' = broken \cup {c}
        /\ ev' = [type |-> "break", conn |-> c]
        /\ UNCHANGED <<serverVars, outbox, brokenRest>>

BrokenSetOps ==
    \E c \in connections, ops \in OpenBatches :
        /\ InitTokens - bucketMap[c].tokens < MaxBrokenOps
        /\ HandleMessage(c, SetMsg(ops))
        /\ ev' = [type |-> "set", conn |-> c, ops |-> ops]
        /\ UNCHANGED presRest

NextBroken ==
    PresConnect \/ PresHello \/ Break \/ BrokenSetOps \/ OpenCursor \/ PresClose

SpecBroken == Init /\ [][NextBroken]_vars

----------------------------------------------------------------------------
(* Claims *)

Last(s) == s[Len(s)]
Accepted(trace) == SelectSeq(trace, LAMBDA e : e.accepted)
Valid(trace) == SelectSeq(trace, LAMBDA e : e.valid)
SeqRange(s) == {s[i] : i \in 1..Len(s)}

\* the cell -> color map of the coordinator's store
ColorMap(voxels) == [k \in MapKeys(voxels) |-> MapGet(voxels, k).color]

\* nothing is in flight in either direction
Quiescent == \A c \in Conns : toServer[c] = <<>> /\ outbox[c] = <<>>

\* C1: once every message in flight has been delivered, the map of every
\* connected client equals the coordinator's store.
C1_Convergence ==
    Quiescent => \A c \in connections : local[c] = ColorMap(canvas.voxels)

\* C2: after any sequence of batches, a cell holds the color of the accepted
\* set with the greatest assigned timestamp (the later one on a tie), it is
\* absent when that operation was a clear, and a cell no operation was accepted
\* for is as the room was made: absent.
C2_LastWriteWins ==
    /\ MapKeys(canvas.voxels) \subseteq Cells
    /\ \A k \in Cells :
          IF lastAcc[k].some /\ lastAcc[k].color # Null
          THEN /\ MapHas(canvas.voxels, k)
               /\ MapGet(canvas.voxels, k).color = lastAcc[k].color
               /\ MapGet(canvas.voxels, k).t = lastAcc[k].t
          ELSE ~MapHas(canvas.voxels, k)

C2_Witness ==
    /\ handled >= 3
    /\ Len(assigned) >= 3
    /\ lastAcc[0].some /\ lastAcc[0].color = Null
    /\ ~MapHas(canvas.voxels, 0)

\* C3: version is its initial value, 0, plus the number of batches in which at
\* least one operation was accepted, however many were accepted in each.
C3_VersionCount == canvas.version = effBatches

C3_Witness ==
    /\ ev.type = "set"
    /\ Len(Accepted(ev.trace)) >= 2
    /\ canvas.version = 2
    /\ handled = 3

\* the places of the apply message of version v in a socket's messages
ApplyIdx(log, v) == {n \in 1..Len(log) : log[n].type = "apply" /\ log[n].version = v}

\* C4: two sockets open while two batches are accepted both get the two apply
\* messages, once each, in the order in which version was incremented.
C4_SameOrder ==
    \A i \in 1..Len(openAt) : \A j \in 1..Len(openAt) :
        i < j =>
            /\ openAt[i].version < openAt[j].version
            /\ \A c \in openAt[i].conns \cap openAt[j].conns :
                  /\ Cardinality(ApplyIdx(outbox[c], openAt[i].version)) = 1
                  /\ Cardinality(ApplyIdx(outbox[c], openAt[j].version)) = 1
                  /\ \A m \in ApplyIdx(outbox[c], openAt[i].version) :
                        \A n \in ApplyIdx(outbox[c], openAt[j].version) : m < n

C4_Witness ==
    /\ Len(openAt) >= 2
    /\ openAt[1].conns = Conns
    /\ openAt[2].conns = Conns
    /\ connections = Conns

\* the accepted lines of a trace as the operations an apply message carries
ExpectedApplied(trace) ==
    LET a == Accepted(trace)
    IN [i \in 1..Len(a) |->
           [type |-> "set", k |-> a[i].k, color |-> a[i].op.color, t |-> a[i].t,
            by |-> a[i].op.by]]

\* C5: a batch with an accepted operation puts exactly one apply message on
\* every open socket, the sender's too, and on no other; it carries the version
\* after the increment and the accepted operations in batch order, each with
\* the timestamp the coordinator assigned.
C5_ApplyBroadcast ==
    [][(ev'.type = "set" /\ Len(Accepted(ev'.trace)) > 0) =>
          /\ ev'.conn \in connections
          /\ canvas'.version = canvas.version + 1
          /\ \A e \in SeqRange(Accepted(ev'.trace)) :
                e.t > canvas.lamport /\ e.t <= canvas'.lamport
          /\ \A c \in connections :
                outbox'[c] = Append(outbox[c],
                    [type |-> "apply", ops |-> ExpectedApplied(ev'.trace),
                     version |-> canvas'.version])
          /\ \A c \in Conns \ connections : outbox'[c] = outbox[c]]_vars

C5_Witness ==
    /\ ev.type = "set"
    /\ Len(Accepted(ev.trace)) = 2
    /\ connections = Conns
    /\ \A c \in Conns :
          /\ Len(outbox[c]) >= 2
          /\ Last(outbox[c]).type = "apply"
          /\ Len(Last(outbox[c]).ops) = 2
          /\ Last(outbox[c]).version = 2

\* C6: every timestamp assigned is greater than the clock before it and than
\* every timestamp assigned earlier, whatever timestamps the clients supply.
C6_ClockStrictlyIncreasing ==
    /\ \A i \in 1..Len(assigned) : \A j \in 1..Len(assigned) :
          i < j => assigned[i] < assigned[j]
    /\ assigned # <<>> => canvas.lamport = Last(assigned)
    /\ ev.type = "set" => \A e \in SeqRange(Valid(ev.trace)) : e.t > e.before

C6_Witness ==
    /\ Len(assigned) >= 3
    /\ ev.type = "set"
    /\ \E e \in SeqRange(Valid(ev.trace)) : ToInt32(e.op.t) < e.before
    /\ \E c \in Conns : \E n \in 1..Len(outbox[c]) :
          /\ outbox[c][n].type = "apply"
          /\ \E a \in SeqRange(outbox[c][n].ops) : a.t > 2

\* C7: for every integer candidate, also one of 2^31 or more, the clock after
\* the operation is max(previous clock + 1, candidate + 1).
C7_ClockIsMax ==
    ev.type = "set" =>
        \A e \in SeqRange(Valid(ev.trace)) :
            Small(e.t) = NumMax(Small(e.before + 1), NumSucc(e.op.t))

\* the operation is one an apply message carried, with the timestamp it carried
Redelivered(op) ==
    \E c \in Conns : \E n \in 1..Len(outbox[c]) :
        /\ outbox[c][n].type = "apply"
        /\ \E a \in SeqRange(outbox[c][n].ops) :
              /\ a.k = ToInt32(op.k)
              /\ a.color = op.color
              /\ Small(a.t) = op.t
              /\ a.by = op.by

\* C8: an applied operation submitted again with its assigned timestamp, after
\* writes to its cell with greater timestamps were accepted, leaves the cell
\* with the record of the latest of those writes.
C8_RedeliveryKeepsStore ==
    [][(/\ ev'.type = "set"
        /\ Len(ev'.ops) = 1
        /\ Redelivered(ev'.ops[1])
        /\ MapHas(canvas.voxels, ToInt32(ev'.ops[1].k))
        /\ MapGet(canvas.voxels, ToInt32(ev'.ops[1].k)).t > ToInt32(ev'.ops[1].t)) =>
          /\ MapHas(canvas'.voxels, ToInt32(ev'.ops[1].k))
          /\ MapGet(canvas'.voxels, ToInt32(ev'.ops[1].k))
                = MapGet(canvas.voxels, ToInt32(ev'.ops[1].k))]_vars

\* the tokens of socket c at a check made now, by the rule of the limiter:
\* one token per RefillMs elapsed, at most BucketCap
Available(c) ==
    Min(BucketCap, bucketMap[c].tokens + Max(0, (now - bucketMap[c].last) \div RefillMs))

\* C9: a batch larger than the tokens available is denied whole: cells, clock
\* and version stay, no flush is scheduled, nothing is broadcast, and the
\* sender alone gets one reject with a retry delay.
C9_ThrottledAllOrNothing ==
    [][(ev'.type = "set" /\ Available(ev'.conn) < Len(ev'.ops)) =>
          /\ canvas' = canvas
          /\ persistTimer' = persistTimer
          /\ pendingTimers' = pendingTimers
          /\ outbox' = [outbox EXCEPT ![ev'.conn] =
                 Append(@, [type |-> "reject", reason |-> "rate",
                            retryAfterMs |-> RetryAfterMs])]]_vars

C9_Witness ==
    /\ ev.type = "set"
    /\ ev.trace = <<>>
    /\ \E i \in 1..Len(ev.ops) : ValidKey(ToInt32(ev.ops[i].k))
    /\ outbox[ev.conn] # <<>>
    /\ Last(outbox[ev.conn]).type = "reject"
    /\ canvas.version >= 1
    /\ connections = Conns

\* C10: with no time elapsed since the socket was accepted, a batch is
\* permitted exactly when the operations of the batches permitted before it
\* plus its own are at most 80; so 80 batches of one operation pass and the
\* 81st is denied.
C10_FullBucket ==
    [][(ev'.type = "set" /\ now = connectedAt[ev'.conn]) =>
          IF spent[ev'.conn] + Len(ev'.ops) <= BucketCap
          THEN /\ spent'[ev'.conn] = spent[ev'.conn] + Len(ev'.ops)
               /\ \A n \in (Len(outbox[ev'.conn]) + 1)..Len(outbox'[ev'.conn]) :
                     outbox'[ev'.conn][n].type # "reject"
          ELSE /\ spent'[ev'.conn] = spent[ev'.conn]
               /\ outbox'[ev'.conn] = Append(outbox[ev'.conn], RejectMsg)]_vars

C10_Witness ==
    /\ ev.type = "set"
    /\ now = connectedAt[Painter]
    /\ handled = BucketCap + 1
    /\ spent[Painter] = BucketCap
    /\ Last(outbox[Painter]).type = "reject"

\* the tokens of socket c when its bucket was tested in the step: what is left
\* and, for a permitted batch, what was deducted
TokensAtCheck(c) ==
    bucketMap'[c].tokens + (IF ev'.ok THEN Len(ev'.ops) ELSE 0)

\* C11: when 4000 ms or more have passed on a socket since tokens were last
\* deducted (or since it was accepted), whatever checks were denied in
\* between, the bucket holds 80 tokens at the next check.
C11_RefillSaturates ==
    [][(ev'.type = "set" /\ now - lastSpend[ev'.conn] >= FullAfterMs) =>
          TokensAtCheck(ev'.conn) = BucketCap]_vars

\* C12: a denied check leaves the bucket of the socket as it was, token count
\* and last-refill time.
C12_DeniedKeepsBucket ==
    [][(ev'.type = "set" /\ outbox'[ev'.conn] = Append(outbox[ev'.conn], RejectMsg)) =>
          bucketMap'[ev'.conn] = bucketMap[ev'.conn]]_vars

\* C13: a batch of more operations than the bucket can hold is denied whole,
\* whatever the bucket holds and however long the socket has waited: cells,
\* clock and version are unchanged and the sender gets a reject.
C13_OversizedRejected ==
    [][(ev'.type = "set" /\ Len(ev'.ops) > BucketCap) =>
          /\ ~ev'.ok
          /\ canvas' = canvas
          /\ UNCHANGED <<persistTimer, pendingTimers>>
          /\ outbox' = [outbox EXCEPT ![ev'.conn] = Append(@, RejectMsg)]]_vars

C13_Witness ==
    /\ ev.type = "set"
    /\ Len(ev.ops) > BucketCap
    /\ ValidKey(ToInt32(ev.ops[1].k))
    /\ now - lastSpend[ev.conn] >= FullAfterMs
    /\ bucketMap[ev.conn].tokens = BucketCap
    /\ canvas.version >= 1
    /\ Last(outbox[ev.conn]).type = "reject"

\* the places of the accepted sets of cell k in a trace
SetsOf(trace, k) ==
    {i \in 1..Len(trace) :
        trace[i].accepted /\ trace[i].k = k /\ trace[i].op.color # Null}

\* the place of the last accepted operation on cell k in a trace
LastOn(trace, k) ==
    CHOOSE i \in 1..Len(trace) :
        /\ trace[i].accepted /\ trace[i].k = k
        /\ \A j \in (i + 1)..Len(trace) : ~(trace[j].accepted /\ trace[j].k = k)

\* C16: the operations of a batch are resolved in order, each on the clock the
\* previous one left; when two sets of one cell are accepted in a batch, their
\* timestamps increase in batch order, one apply message carries both, the
\* cell holds the color of the last accepted one, and version goes up by 1.
C16_BatchOrder ==
    [][ev'.type = "set" =>
          LET tr == ev'.trace IN
          /\ Len(tr) > 0 => tr[1].before = canvas.lamport
          /\ \A i \in 2..Len(tr) : tr[i].before = tr[i - 1].t
          /\ \A k \in Cells :
                Cardinality(SetsOf(tr, k)) >= 2 =>
                   /\ \A i \in SetsOf(tr, k) : \A j \in SetsOf(tr, k) :
                         i < j => tr[i].t < tr[j].t
                   /\ canvas'.version = canvas.version + 1
                   /\ Len(outbox'[ev'.conn]) = Len(outbox[ev'.conn]) + 1
                   /\ Last(outbox'[ev'.conn]).type = "apply"
                   /\ \A i \in SetsOf(tr, k) :
                         \E n \in 1..Len(Last(outbox'[ev'.conn]).ops) :
                            LET a == Last(outbox'[ev'.conn]).ops[n]
                            IN a.k = k /\ a.t = tr[i].t /\ a.color = tr[i].op.color
                   /\ tr[LastOn(tr, k)].op.color # Null =>
                         /\ MapHas(canvas'.voxels, k)
                         /\ MapGet(canvas'.voxels, k).color = tr[LastOn(tr, k)].op.color
                         /\ MapGet(canvas'.voxels, k).t = tr[LastOn(tr, k)].t]_vars

C16_Witness ==
    /\ ev.type = "set"
    /\ Len(ev.trace) = 2
    /\ SetsOf(ev.trace, 0) = {1, 2}
    /\ ev.trace[1].op.color = Red /\ ev.trace[2].op.color = Green
    /\ ev.trace[1].had
    /\ MapGet(canvas.voxels, 0).color = Green
    /\ canvas.version = 2
    /\ Len(Last(outbox[ev.conn]).ops) = 2

\* the client-supplied number is an integer of [0, 8000)
InGrid(x) == x.q = 0 /\ x.r < GridCells

\* C14: an operation whose cell is an integer outside [0, 8000), 2^32 and
\* more included, is discarded: it is not resolved on any cell, it is absent
\* from the applied set and the clock does not advance.
C14_OutOfRangeDiscarded ==
    (ev.type = "set" /\ ev.ok) =>
        \A e \in SeqRange(ev.trace) :
            ~InGrid(e.op.k) => ~e.valid /\ ~e.accepted /\ e.t = e.before

\* the last two handlers were permitted batches of one set each, from two
\* sockets, on one cell of the grid and with one client timestamp
Duel ==
    /\ prevEv.type = "set" /\ ev.type = "set"
    /\ prevEv.conn # ev.conn
    /\ prevEv.ok /\ ev.ok
    /\ Len(prevEv.ops) = 1 /\ Len(ev.ops) = 1
    /\ prevEv.ops[1].color # Null /\ ev.ops[1].color # Null
    /\ ValidKey(ToInt32(ev.ops[1].k))
    /\ ToInt32(prevEv.ops[1].k) = ToInt32(ev.ops[1].k)
    /\ prevEv.ops[1].t = ev.ops[1].t

\* the operations of a message on cell k
OpsOn(msg, k) == SelectSeq(msg.ops, LAMBDA a : a.k = k)

\* C17: when two sockets each set the same cell with the same client
\* timestamp, the cell ends with the color of the batch processed second, and
\* the last apply message of both sockets ends, for that cell, with that
\* color; the one before it carries the color of the first batch.
C17_SecondWins ==
    Duel =>
        LET k == ToInt32(ev.ops[1].k) IN
        /\ MapHas(canvas.voxels, k)
        /\ MapGet(canvas.voxels, k).color = ev.ops[1].color
        /\ \A c \in {prevEv.conn, ev.conn} :
              LET n == Len(outbox[c]) IN
              /\ n >= 2
              /\ outbox[c][n].type = "apply" /\ outbox[c][n - 1].type = "apply"
              /\ OpsOn(outbox[c][n], k) # <<>>
              /\ Last(OpsOn(outbox[c][n], k)).color = ev.ops[1].color
              /\ OpsOn(outbox[c][n - 1], k) # <<>>
              /\ Last(OpsOn(outbox[c][n - 1], k)).color = prevEv.ops[1].color
              /\ outbox[c][n - 1].version < outbox[c][n].version

C17_Witness ==
    /\ Duel
    /\ prevEv.conn = "c2" /\ prevEv.ops[1].color = "#445566"
    /\ ev.conn = "c1" /\ ev.ops[1].color = "#112233"
    /\ MapGet(canvas.voxels, 100).color = "#112233"
    /\ Last(outbox["c2"]).ops[1].color = "#112233"

----------------------------------------------------------------------------
(* Claims about the room with its storage (SpecRoom)                       *)

\* C15: in every reachable state of a room, after a seed and after a restart
\* over the storage too (also when a flush stopped between its two puts),
\* the clock is at least the timestamp of every record of the store.
C15_ClockCoversStore ==
    \A i \in 1..Len(canvas.voxels) : canvas.voxels[i].t <= canvas.lamport

\* the cells of a packed state as a set of (cell, color, timestamp)
PackedCells(packed) == {packed[i] : i \in 1..Len(packed)}

\* the records of the store as a set of (cell, color, timestamp)
StoreCells(voxels) ==
    {<<voxels[i].k, voxels[i].color, voxels[i].t>> : i \in 1..Len(voxels)}

\* C18: a hello appends exactly one message, a welcome, to the requesting
\* socket and nothing to any other; its state has one entry per record of
\* the store as it is at that moment, its version is the current version
\* (state <<>> and version 0 in an empty fresh room), and its identity is
\* the supplied one or, with none supplied, a generated one.
C18_Handshake ==
    [][ev'.type = "hello" =>
          LET c == ev'.conn
              n == Len(outbox'[c])
              w == outbox'[c][n]
          IN /\ n = Len(outbox[c]) + 1
             /\ SubSeq(outbox'[c], 1, n - 1) = outbox[c]
             /\ \A x \in Conns \ {c} : outbox'[x] = outbox[x]
             /\ w.type = "welcome"
             /\ Len(w.state) = Len(canvas.voxels)
             /\ PackedCells(w.state) = StoreCells(canvas.voxels)
             /\ w.version = canvas.version
             /\ canvas' = canvas
             /\ canvas.voxels = <<>> /\ canvas.version = 0
                    => w.state = <<>> /\ w.version = 0
             /\ IF ev'.msg.playerId # Undefined
                THEN w.playerId = ev'.msg.playerId
                ELSE w.playerId \in FreshIds]_vars

\* a hello without identity is answered in a room that holds a painted cell
\* and has version 1 or more, with another socket open
C18_Witness ==
    /\ ev.type = "hello"
    /\ ev.msg.playerId = Undefined
    /\ Cardinality(connections) = 2
    /\ Last(outbox[ev.conn]).type = "welcome"
    /\ Last(outbox[ev.conn]).playerId \in FreshIds
    /\ Last(outbox[ev.conn]).version >= 1
    /\ <<0, Red, 1>> \in PackedCells(Last(outbox[ev.conn]).state)

\* C19: once a freeze of the room has succeeded, no set batch, from a socket
\* opened before the freeze either, changes the cells or the version.
C19_FrozenRejectsWrites ==
    [][staticRooms # <<>> /\ ev'.type = "set" =>
          /\ canvas'.voxels = canvas.voxels
          /\ canvas'.version = canvas.version]_vars

\* C20: a successful freeze writes an export with exactly the records of the
\* in-memory store at that moment (cell, color and timestamp of each) and
\* with the live version, flushed or not.
C20_FreezeExport ==
    [][ev'.type = "freeze" /\ ev'.success =>
          /\ staticRooms' # <<>>
          /\ Len(staticRooms'[1].voxels) = Len(canvas.voxels)
          /\ PackedCells(staticRooms'[1].voxels) = StoreCells(canvas.voxels)
          /\ staticRooms'[1].version = canvas.version]_vars

\* a freeze has succeeded on a room whose store holds a painted cell that
\* the storage does not hold yet
C20_Witness ==
    /\ ev.type = "freeze" /\ ev.success
    /\ canvas.version >= 1
    /\ StoreCells(canvas.voxels) # {}
    /\ PackedCells(storage.voxels) # StoreCells(canvas.voxels)
    /\ storage.meta = <<>>
    /\ PackedCells(staticRooms[1].voxels) = StoreCells(canvas.voxels)

----------------------------------------------------------------------------
(* Claims about freezing (SpecRoom, SpecFreeze)                            *)

\* C21: after the first successful freeze of a room, no later request (a
\* further freeze, a write, a seed) changes what is stored under the key of
\* the room's frozen export.
C21_FrozenWrittenOnce ==
    [][staticRooms # <<>> => staticRooms' = staticRooms]_vars

\* C22: once a frozen snapshot exists for a room, the coordinator accepts no
\* new socket, also when the request was routed while the freeze ran.
C22_NoAcceptOnceFrozen ==
    [][staticRooms # <<>> => connections' \subseteq connections]_vars

\* C23: when the write of a freeze fails, the caller is told so (success
\* false, status 500), STATIC_ROOMS holds what it held, cells, clock and
\* version are unchanged, and the room, not frozen, goes on accepting
\* sockets and applying batches.
C23_FailedFreeze ==
    [][/\ ev'.type = "freeze" /\ ~ev'.success =>
            /\ ev'.response.status = 500
            /\ ~ev'.response.success
            /\ staticRooms' = staticRooms
            /\ canvas' = canvas
            /\ connections' = connections
            /\ bucketMap' = bucketMap
       /\ ev.type = "freeze" /\ ~ev.success /\ staticRooms = <<>> =>
            /\ ev'.type = "route" => ev'.conn \in routed'
            /\ ev'.type = "accept" => ev'.conn \in connections'
            /\ ev'.type = "set" =>
                  /\ ev'.ok
                  /\ canvas'.version = canvas.version + 1
                  /\ MapHas(canvas'.voxels, 0)]_vars

\* a freeze failed on a room that is not frozen, and the next handler
\* applied a batch
C23_Witness ==
    /\ prevEv.type = "freeze" /\ ~prevEv.success
    /\ prevEv.response.status = 500
    /\ staticRooms = <<>>
    /\ ev.type = "set" /\ ev.ok
    /\ canvas.version >= 1
    /\ Cardinality(connections) = 2

----------------------------------------------------------------------------
(* Claims about malformed input (SpecRaw)                                  *)

\* C24: whatever a socket carries, its handling either leaves cells and
\* version as they were, or raises version by one and sends every open
\* socket one apply message with that version: the store does not change
\* without the sockets being told.
C24_MalformedContained ==
    [][ev'.type = "message" =>
          \/ /\ canvas'.voxels = canvas.voxels
             /\ canvas'.version = canvas.version
          \/ /\ canvas'.version = canvas.version + 1
             /\ \A x \in connections :
                   /\ Len(outbox'[x]) = Len(outbox[x]) + 1
                   /\ Last(outbox'[x]).type = "apply"
                   /\ Last(outbox'[x]).version = canvas'.version]_vars

----------------------------------------------------------------------------
(* Claims about timestamps that meet and about recovery (SpecFlush)        *)

\* the batch of ev' was accepted: it raised version
Raised == canvas'.version = canvas.version + 1

\* C25: a set or clear of an occupied cell whose resolved timestamp equals
\* the stored one is accepted and replaces the record; it is discarded
\* exactly when the stored timestamp is strictly greater, and then the
\* record stays as it was.
C25_TieBreak ==
    [][ev'.type = "set" /\ MapHas(canvas.voxels, 0) =>
          LET cur == MapGet(canvas.voxels, 0)
              op == ev'.ops[1]
              t == canvas'.lamport
          IN /\ Raised <=> ~(cur.t > t)
             /\ ~Raised => canvas'.voxels = canvas.voxels
             /\ Raised /\ op.color # Null =>
                    /\ MapGet(canvas'.voxels, 0).color = op.color
                    /\ MapGet(canvas'.voxels, 0).t = t
             /\ Raised /\ op.color = Null => ~MapHas(canvas'.voxels, 0)]_vars

\* green was written over red with red's timestamp: the storage still holds
\* red at 1 and the store holds green at 1
C25_Witness ==
    /\ ev.type = "set" /\ ev.ops[1].color = Green
    /\ storage.voxels = <<<<0, Red, 1>>>>
    /\ MapHas(canvas.voxels, 0)
    /\ MapGet(canvas.voxels, 0).color = Green
    /\ MapGet(canvas.voxels, 0).t = 1

\* C30: whenever the instance restarts, between the two puts of a flush or
\* after a failed one too, the rehydrated cells, version and clock are those
\* of one in-memory state at which a flush began, or those of the new room.
C30_OneDurableWrite ==
    [][ev'.type = "restart" =>
          Snapshot(canvas') \in
              flushed \cup {Snapshot([voxels |-> <<>>, lamport |-> 0, version |-> 0])}]_vars

----------------------------------------------------------------------------
(* Claims about clears (Spec)                                              *)

\* the batch of ev' was not turned away by the limiter
Permitted ==
    ~(/\ Len(outbox'[ev'.conn]) = Len(outbox[ev'.conn]) + 1
      /\ Last(outbox'[ev'.conn]) = RejectMsg)

\* C26: a permitted batch made only of clears of cells without a record
\* changes neither cells nor version, sends nothing and sets no flush timer;
\* a permitted batch of one clear of an occupied cell whose record is not
\* newer removes the cell and sends every open socket the clear with the
\* timestamp the coordinator assigned.
C26_ClearSemantics ==
    [][ev'.type = "set" /\ Permitted =>
          LET ops == ev'.ops
              k == ToInt32(ops[1].k)
          IN /\ (\A i \in 1..Len(ops) :
                    /\ ops[i].color = Null
                    /\ ~MapHas(canvas.voxels, ToInt32(ops[i].k)))
                 => /\ canvas'.voxels = canvas.voxels
                    /\ canvas'.version = canvas.version
                    /\ outbox' = outbox
                    /\ persistTimer' = persistTimer
                    /\ pendingTimers' = pendingTimers
             /\ (/\ Len(ops) = 1 /\ ops[1].color = Null
                 /\ MapHas(canvas.voxels, k)
                 /\ MapGet(canvas.voxels, k).t <= canvas'.lamport)
                 => /\ ~MapHas(canvas'.voxels, k)
                    /\ canvas'.version = canvas.version + 1
                    /\ \A x \in connections :
                          Last(outbox'[x]) =
                              ApplyMsg(<<[type |-> "set", k |-> k, color |-> Null,
                                          t |-> canvas'.lamport, by |-> ops[1].by]>>,
                                       canvas'.version)]_vars

\* a clear has removed cell 0, painted before, and both sockets were told
C26_Witness ==
    /\ ev.type = "set" /\ Len(ev.ops) = 1 /\ ev.ops[1].color = Null
    /\ Len(ev.trace) = 1 /\ ev.trace[1].had /\ ev.trace[1].accepted
    /\ ~MapHas(canvas.voxels, 0)
    /\ canvas.version >= 2
    /\ Cardinality(connections) = 2
    /\ \A x \in connections : Last(outbox[x]).ops[1].color = Null

----------------------------------------------------------------------------
(* Claims about presence and per-socket state (SpecPresence)               *)

\* the messages a step appended to the outgoing messages of socket x
Appended(x) == SubSeq(outbox'[x], Len(outbox[x]) + 1, Len(outbox'[x]))

\* C27: a presence broadcast has at most one record per identity, and the
\* record of an identity held by several sockets is that of the socket that
\* wrote last: after a cursor update of a registered socket, the record of
\* its identity carries the cursor it has just sent.
C27_PresenceDedup ==
    [][ev'.type = "presence" /\ MapHas(playerPresence, ev'.conn) =>
          \A x \in connections :
              /\ Len(Appended(x)) = 1
              /\ Appended(x)[1].type = "presence"
              /\ LET players == Appended(x)[1].players
                     id == MapGet(playerPresence, ev'.conn).playerId
                 IN /\ \A i, j \in 1..Len(players) :
                          players[i].playerId = players[j].playerId => i = j
                    /\ \E i \in 1..Len(players) :
                          /\ players[i].playerId = id
                          /\ players[i].cursor = ev'.msg.cursor]_vars

\* C28: every change of the presence map, by a hello, a cursor update or a
\* close, sends every open socket the presence message of the new map.
C28_PresenceBroadcast ==
    [][playerPresence' # playerPresence =>
          \A x \in connections' :
              \E n \in 1..Len(Appended(x)) :
                  Appended(x)[n] = PresenceMsg(playerPresence')]_vars

\* C29: the sockets with a bucket are the open ones and every presence
\* record is of an open socket; a close removes the socket's bucket and
\* record and sends the others one presence message without it; a closed
\* socket is sent nothing.
C29_PerSocketState ==
    [][/\ DOMAIN bucketMap' = connections'
       /\ MapKeys(playerPresence') \subseteq connections'
       /\ \A x \in closed : outbox'[x] = outbox[x]
       /\ ev'.type = "close" =>
             LET c == ev'.conn IN
             /\ c \notin connections' /\ c \in closed'
             /\ outbox'[c] = outbox[c]
             /\ \A x \in connections' :
                   /\ Len(Appended(x)) = 1
                   /\ Appended(x)[1].type = "presence"
                   /\ {Appended(x)[1].players[i].playerId :
                           i \in 1..Len(Appended(x)[1].players)}
                      = {playerPresence[i].playerId :
                           i \in {j \in 1..Len(playerPresence) : playerPresence[j].k # c}}]_vars

\* a registered socket has closed while another registered socket, with
\* another identity, stays open and was told
C29_Witness ==
    /\ ev.type = "close"
    /\ closed = {ev.conn}
    /\ Cardinality(connections) = 1
    /\ Len(playerPresence) = 1
    /\ \A x \in connections :
          /\ Last(outbox[x]).type = "presence"
          /\ Len(Last(outbox[x]).players) = 1
          /\ \E n \in 1..Len(outbox[ev.conn]) :
                /\ outbox[ev.conn][n].type = "welcome"
                /\ outbox[ev.conn][n].playerId # Last(outbox[x]).players[1].playerId

----------------------------------------------------------------------------
(* Claims about the flush timer (SpecDebounce, SpecDurable)                *)

\* C31: at most one flush timer is pending at any time; a timer fires only
\* when 500 ms have passed since the last accepted batch; a flush writes the
\* store as it is when the timer fires.
C31_Debounce ==
    [][/\ Cardinality(pendingTimers') <= 1
       /\ ev'.type = "timer" =>
             /\ now - acceptedAt >= PersistDelayMs
             /\ ev'.ok => storage'.voxels = PackState(canvas.voxels)]_vars

\* a second timer, set 250 ms after the first, has fired and written a store
\* that two batches made
C31_Witness ==
    /\ ev.type = "timer" /\ ev.ok
    /\ persistTimer = 2
    /\ pendingTimers = {}
    /\ acceptedAt = PersistDelayMs \div 2
    /\ canvas.version = 2
    /\ storage.voxels = PackState(canvas.voxels)

\* durable storage holds the cells and the version of the canvas
Durable ==
    /\ PackState(Rehydrate(storage).voxels) = PackState(canvas.voxels)
    /\ Rehydrate(storage).version = canvas.version

\* C32: when puts succeed and batches stop, durable storage ends up holding
\* the cells and the version of the canvas, for good.
C32_EventuallyDurable == <>[]Durable

\* the last of two accepted batches has been flushed
C32_Witness ==
    /\ ev.type = "meta"
    /\ canvas.version = 2
    /\ pendingTimers = {}
    /\ Durable

\* C33: a put of a flush that throws changes neither canvas nor sockets,
\* buckets or messages; every accepted batch, after a failure too, leaves a
\* new timer pending and due in 500 ms; and a flush that completes with the
\* store as its first put wrote it leaves durable storage equal to the
\* canvas.
C33_FailedFlushHarmless ==
    [][/\ (ev'.type = "metafails" \/ (ev'.type = "timer" /\ ~ev'.ok)) =>
             /\ canvas' = canvas
             /\ outbox' = outbox
             /\ connections' = connections
             /\ bucketMap' = bucketMap
       /\ (ev'.type = "set" /\ ev'.accepted) =>
             /\ persistTimer' \in pendingTimers'
             /\ timerDue'[persistTimer'] = now + PersistDelayMs
       /\ (ev'.type = "meta" /\ storage.voxels = PackState(canvas.voxels)) =>
             /\ Durable'
             /\ storage'.meta[1].lamport = canvas.lamport]_vars

\* the first put of a flush threw with nothing stored, and the next batch
\* was accepted and left a new timer pending
C33_Witness ==
    /\ ev.type = "set" /\ ev.accepted
    /\ prevEv.type = "timer" /\ ~prevEv.ok
    /\ storage.voxels = <<>>
    /\ canvas.version = 2
    /\ pendingTimers = {persistTimer}
    /\ timerDue[persistTimer] = now + PersistDelayMs

----------------------------------------------------------------------------
(* Claims about packing and cell addressing (SpecPack, SpecKey)            *)

\* C34: packing the store and unpacking the result gives, in the constructor,
\* the same cells in the same order with the same colors and timestamps and,
\* on the client, the same cells with the same colors; the empty store packs
\* to the empty array.
C34_RoundTrip ==
    LET packed == PackState(canvas.voxels)
        back == RehydrateVoxels(packed, <<>>)
        shown == Unpack(packed, <<>>)
    IN /\ Len(back) = Len(canvas.voxels)
       /\ \A i \in 1..Len(back) :
             /\ back[i].k = canvas.voxels[i].k
             /\ back[i].color = canvas.voxels[i].color
             /\ back[i].t = canvas.voxels[i].t
       /\ DOMAIN shown = MapKeys(canvas.voxels)
       /\ \A k \in DOMAIN shown : shown[k] = MapGet(canvas.voxels, k).color
       /\ canvas.voxels = <<>> => packed = <<>>

\* a new instance holds the twenty seeded cells, the last one repainted
\* after the seed, as the flush packed them
C34_Witness ==
    /\ ev.type = "restart"
    /\ Len(canvas.voxels) = SeedCount
    /\ canvas.voxels[1].t = 1
    /\ canvas.voxels[SeedCount].color = Green
    /\ canvas.voxels[SeedCount].t = SeedCount + 1
    /\ PackState(canvas.voxels) = storage.voxels

\* C35: the key of a position in the grid is a cell of the grid and unpacks
\* to that position; the position of a cell of the grid is in the grid and
\* its key is that cell.  Two positions with one key would both be what
\* that key unpacks to, so distinct positions have distinct keys.
C35_KeyBijection ==
    /\ picked \in 0..(GridCells - 1)
    /\ \A i \in 1..3 : pos[i] \in Coords
    /\ ev.type = "key" =>
          /\ picked = pos[1] + pos[2] * GridSize + pos[3] * GridSize * GridSize
          /\ UnpackKey(picked) = pos
    /\ ev.type = "unpackKey" => Key(pos[1], pos[2], pos[3]) = picked

\* the far corner of the grid has been addressed
C35_Witness ==
    /\ ev.type = "key"
    /\ pos = <<GridSize - 1, GridSize - 1, GridSize - 1>>
    /\ picked = GridCells - 1

----------------------------------------------------------------------------
(* Claims about the handshake (SpecOpen)                                   *)

\* C36: a batch is charged to the bucket of its socket and resolved whether
\* or not the socket has said hello: a set of red on cell 0 raises the
\* version, stores red, and sends one apply with the new version to every
\* open socket, registered or not; the presence broadcast of a cursor update
\* reaches every open socket, registered or not.
C36_NoHandshakeNeeded ==
    [][/\ ev'.type = "set" =>
             LET c == ev'.conn
             IN /\ bucketMap'[c] = CheckBucket(bucketMap[c], now, Len(ev'.ops)).bucket
                /\ ev'.ops[1].color = Red =>
                      /\ Raised
                      /\ MapGet(canvas'.voxels, 0).color = Red
                      /\ \A x \in connections :
                            /\ Len(Appended(x)) = 1
                            /\ Appended(x)[1].type = "apply"
                            /\ Appended(x)[1].version = canvas'.version
                            /\ Appended(x)[1].ops[1].color = Red
       /\ (ev'.type = "presence" /\ MapHas(playerPresence, ev'.conn)) =>
             \A x \in connections : Appended(x) = <<PresenceMsg(playerPresence')>>]_vars

\* a socket that has never said hello has received the presence broadcast
\* of another socket and then the apply of its own batch, which the other
\* socket received too
C36_Witness ==
    /\ ev.type = "set"
    /\ ~MapHas(playerPresence, ev.conn)
    /\ canvas.version = 1
    /\ Len(outbox[ev.conn]) = 2
    /\ outbox[ev.conn][1].type = "presence"
    /\ outbox[ev.conn][2].type = "apply"
    /\ \E x \in connections \ {ev.conn} : Last(outbox[x]).type = "apply"

\* C40: a hello on a socket that has a presence record sends that socket,
\* and no other, one welcome with the store and the version as they are
\* then; the record of the socket is replaced, in its place, by one with the
\* identity supplied, or a generated one, and no cursor; canvas and buckets
\* are unchanged.
C40_ReHello ==
    [][(ev'.type = "hello" /\ MapHas(playerPresence, ev'.conn)) =>
          LET c == ev'.conn
              w == Appended(c)[1]
              rec == MapGet(playerPresence', c)
          IN /\ Len(Appended(c)) = 1
             /\ w.type = "welcome"
             /\ w.state = PackState(canvas.voxels)
             /\ w.version = canvas.version
             /\ IF ev'.msg.playerId # Undefined
                THEN w.playerId = ev'.msg.playerId
                ELSE w.playerId \in FreshIds
             /\ \A x \in Conns \ {c} : Appended(x) = <<>>
             /\ rec = [k |-> c, playerId |-> w.playerId, cursor |-> Undefined]
             /\ MapKeys(playerPresence') = MapKeys(playerPresence)
             /\ Len(playerPresence') = Len(playerPresence)
             /\ canvas' = canvas
             /\ bucketMap' = bucketMap]_vars

\* a socket said hello as one player, moved its cursor, and said hello as
\* another player: its record has the new identity and no cursor
C40_Witness ==
    /\ ev.type = "hello"
    /\ LET log == outbox[ev.conn]
       IN /\ Len(log) = 3
          /\ log[1].type = "welcome"
          /\ log[2].type = "presence"
          /\ log[2].players[1].cursor # Undefined
          /\ log[3].type = "welcome"
          /\ log[3].playerId # log[1].playerId
          /\ MapGet(playerPresence, ev.conn).playerId = log[3].playerId
          /\ MapGet(playerPresence, ev.conn).cursor = Undefined

----------------------------------------------------------------------------
(* Claims about one instance that is never restarted (SpecStale)           *)

\* C37: in an instance that has not been restarted, every operation of a
\* permitted batch on a cell of the grid is accepted when it is a set, and
\* when it is a clear of a cell that has a record.
C37_NeverStale ==
    [][ev'.type = "set" =>
          \A i \in 1..Len(ev'.trace) :
              LET e == ev'.trace[i]
              IN (e.valid /\ (e.op.color # Null \/ e.had)) => e.accepted]_vars

\* after a seed, a set with client timestamp 0 has been accepted on a cell
\* whose record was written after a late timestamp had raised the clock
C37_Witness ==
    /\ ev.type = "set"
    /\ Len(canvas.voxels) = SeedCount
    /\ \E i \in 1..Len(ev.trace) :
          LET e == ev.trace[i]
          IN /\ e.had /\ e.accepted
             /\ e.op.t = Small(0)
             /\ e.before > 1000

\* the welcome and apply messages a socket has been sent, in order
Versioned(log) == SelectSeq(log, LAMBDA m : m.type \in {"welcome", "apply"})

\* C38: the versions of the welcome and apply messages a socket has been
\* sent increase strictly, and the version of each apply is one more than
\* that of the welcome or apply before it.
C38_VersionContinuity ==
    \A c \in Conns :
        LET log == Versioned(outbox[c])
        IN \A i \in 2..Len(log) :
              /\ log[i].version > log[i - 1].version
              /\ log[i].type = "apply" => log[i].version = log[i - 1].version + 1

----------------------------------------------------------------------------
(* Claims about sockets whose send throws (SpecBroken)                     *)

\* C39: with an open socket whose send throws, a set of red on cell 0 still
\* raises the version and stores red, and every other open socket is sent
\* the apply; the presence broadcast of a cursor update is still sent to
\* every other open socket; the broken socket is sent nothing.
C39_SendFailureIsolated ==
    [][(broken \cap connections # {}) =>
          /\ (ev'.type = "set" /\ ev'.ops[1].color = Red) =>
                /\ Raised
                /\ MapGet(canvas'.voxels, 0).color = Red
                /\ MapGet(canvas'.voxels, 0).t = canvas'.lamport
                /\ \A x \in connections \ broken :
                      /\ Len(Appended(x)) = 1
                      /\ Appended(x)[1].type = "apply"
                      /\ Appended(x)[1].version = canvas'.version
          /\ (ev'.type = "presence" /\ MapHas(playerPresence, ev'.conn)) =>
                \A x \in connections \ broken :
                    Appended(x) = <<PresenceMsg(playerPresence')>>
          /\ \A x \in broken : Appended(x) = <<>>]_vars

\* a batch was accepted while one open socket could not be sent to: the
\* other socket has the apply, the broken one has nothing
C39_Witness ==
    /\ ev.type = "set"
    /\ canvas.version = 1
    /\ \E b \in broken \cap connections : outbox[b] = <<>>
    /\ \E x \in connections \ broken :
          /\ Len(outbox[x]) = 1
          /\ outbox[x][1].type = "apply"

====
